---- MODULE Spec2Model ----
(***************************************************************************)
(* SitePulse: audit history storage (MemStorage / DatabaseStorage), the    *)
(* trend analysis engine (HistoricalInsightsService), the URL safety gate  *)
(* and the audit pipeline (AuditService).                                  *)
(*                                                                         *)
(* Conventions                                                             *)
(*  - time is counted in whole days (recordedAt, analysisDate, now);       *)
(*  - a nullable score column holds Null when the code stores null;        *)
(*  - averages are kept as exact fractions <<sum, count>> and compared by  *)
(*    cross-multiplication, so no rounding enters a threshold test;        *)
(*  - every `await` of the code is a step boundary of the model.           *)
(***************************************************************************)
EXTENDS Integers, Sequences, FiniteSets, TLC

\* ------------------------------------------------------------------ bounds
MaxAudits == 1        \* POST /api/audit requests
MaxRecords == 1       \* POST /api/audit/:id/record-history requests
MaxBatch == 2         \* audits of one bulk-analysis batch
MaxTicks == 1         \* clock advances
MaxFaults == 1        \* injected storage failures inside trend generation
MaxCleanups == 1      \* POST /api/historical-tracking/cleanup requests
MaxHistory == 13      \* records of the histories the trend engine is run on
MaxAnchors == 2       \* a[href] elements of an audited page

Null == 0 - 1

\* ------------------------------------------------------------- small helpers
Min(a, b) == IF a <= b THEN a ELSE b
Max(a, b) == IF a >= b THEN a ELSE b
Abs(x) == IF x < 0 THEN 0 - x ELSE x

\* floor(a / b) and ceil(a / b) for b > 0 and any integer a
FloorDiv(a, b) == IF a >= 0 THEN a \div b ELSE 0 - ((0 - a + b - 1) \div b)
CeilDiv(a, b) == 0 - FloorDiv(0 - a, b)

\* Math.round of the fraction num / den (den > 0): floor(x + 0.5)
RoundFrac(num, den) == FloorDiv(2 * num + den, 2 * den)

\* Math.round of a sum of products of scores and double weights, num / den
\* being the sum in exact arithmetic.  The doubles 0.3, 0.2, 0.15 and 0.1 are
\* not the decimal weights, so at a tie x.5 the sum of the doubles may fall
\* short of x.5 by a rounding error, and is then rounded down:
\* 57 * 0.30 + 60 * 0.25 + 27 * 0.20 + 100 * 0.15 + 100 * 0.10 is
\* 62.49999999999999.  short tells whether it does.
MathRound(num, den, short) ==
  IF short /\ (2 * num) % (2 * den) = den THEN RoundFrac(num, den) - 1
  ELSE RoundFrac(num, den)

Range(s) == {s[i] : i \in 1..Len(s)}

RECURSIVE SeqSum(_)
SeqSum(s) == IF s = <<>> THEN 0 ELSE s[1] + SeqSum(Tail(s))

\* Array.prototype.slice(0, k) and slice(-k)
SliceFirst(s, k) == SubSeq(s, 1, Min(k, Len(s)))
SliceLast(s, k) == SubSeq(s, Max(1, Len(s) - k + 1), Len(s))

\* ----------------------------------------------------- trend analysis engine
Periods == <<"7d", "30d", "90d", "1y">>
PeriodSet == Range(Periods)

\* TREND_PARAMS[timePeriod].minimumDataPoints
\* one minimum for every period
FlatMinimumDataPoints(p) == 3

\* TREND_PARAMS[timePeriod].minimumDataPoints
minimumDataPoints(p) ==
  CASE p = "7d" -> 3 [] p = "30d" -> 5 [] p = "90d" -> 8 [] p = "1y" -> 12

\* one threshold for every period
FlatSignificanceThreshold(p) == 5

\* TREND_PARAMS[timePeriod].significanceThreshold
significanceThreshold(p) ==
  CASE p = "7d" -> 5 [] p = "30d" -> 8 [] p = "90d" -> 10 [] p = "1y" -> 15

\* getExpectedTimeSpan, in days
getExpectedTimeSpan(p) ==
  CASE p = "7d" -> 7 [] p = "30d" -> 30 [] p = "90d" -> 90 [] p = "1y" -> 365

\* calculateDateRange: endDate = now, startDate = now minus the window
\* (setFullYear(year - 1) is taken as 365 days)
calculateDateRange(p, today) ==
  [startDate |-> today - getExpectedTimeSpan(p), endDate |-> today]

\* [...history].sort((a, b) => a.recordedAt - b.recordedAt): stable, ascending
RECURSIVE SortAsc(_)
InsertAsc(r, s) ==
  LET k == Cardinality({i \in 1..Len(s) : s[i].recordedAt <= r.recordedAt})
  IN SubSeq(s, 1, k) \o <<r>> \o SubSeq(s, k + 1, Len(s))
\* the array as it is handed in
Unsorted(h) == h

SortAsc(h) ==
  IF h = <<>> THEN <<>>
  ELSE InsertAsc(h[Len(h)], SortAsc(SubSeq(h, 1, Len(h) - 1)))

\* [...history].sort((a, b) => b.recordedAt - a.recordedAt): stable, descending
RECURSIVE SortDesc(_)
InsertDesc(r, s) ==
  LET k == Cardinality({i \in 1..Len(s) : s[i].recordedAt >= r.recordedAt})
  IN SubSeq(s, 1, k) \o <<r>> \o SubSeq(s, k + 1, Len(s))
SortDesc(h) ==
  IF h = <<>> THEN <<>>
  ELSE InsertDesc(h[Len(h)], SortDesc(SubSeq(h, 1, Len(h) - 1)))

Metrics == <<"overall", "seo", "accessibility", "mobile", "performance">>

MetricOf(r, m) ==
  CASE m = "overall" -> r.overallScore
    [] m = "seo" -> r.seoScore
    [] m = "accessibility" -> r.accessibilityScore
    [] m = "mobile" -> r.mobileScore
    [] m = "performance" -> r.performanceScore

\* calculateAverageScores, one metric: the fraction <<total, count>> over the
\* records whose field is not null; count = 0 stands for a null average.
\* An empty history yields overall = 0.
calculateAverageScores(history, m) ==
  LET vals == [i \in 1..Len(history) |-> MetricOf(history[i], m)]
      used == SelectSeq(vals, LAMBDA v : v # Null)
  IN IF history = <<>>
       THEN (IF m = "overall" THEN <<0, 1>> ELSE <<0, 0>>)
       ELSE <<SeqSum(used), Len(used)>>

\* the positions of sortedHistory that detectOverallTrend averages as the
\* earlier half: slice(0, Math.floor(length / 2))
EarlierHalf(n) == 1..FloorDiv(n, 2)

\* and as the recent half: slice(Math.ceil(length / 2))
RecentHalf(n) == (CeilDiv(n, 2) + 1)..n

\* detectOverallTrend
detectOverallTrend(history) ==
  IF Len(history) < 2 THEN "stable"
  ELSE
    LET sortedHistory == SortAsc(history)
        n == Len(sortedHistory)
        recentHalf == SubSeq(sortedHistory, CeilDiv(n, 2) + 1, n)
        earlierHalf == SubSeq(sortedHistory, 1, FloorDiv(n, 2))
        recentAverage == calculateAverageScores(recentHalf, "overall")
        earlierAverage == calculateAverageScores(earlierHalf, "overall")
        num == recentAverage[1] * earlierAverage[2]
                 - earlierAverage[1] * recentAverage[2]
        den == recentAverage[2] * earlierAverage[2]
    IN IF num >= 5 * den THEN "improving"
       ELSE IF num <= (0 - 5) * den THEN "declining"
       ELSE "stable"

\* calculateConsecutiveChanges
calculateConsecutiveChanges(history) ==
  IF Len(history) < 2 THEN <<>>
  ELSE
    LET sortedHistory == SortAsc(history)
    IN [i \in 1..(Len(sortedHistory) - 1) |->
          sortedHistory[i + 1].overallScore - sortedHistory[i].overallScore]

\* calculateConsistencyScore as the fraction <<100 * consistent, length>>
calculateConsistencyScore(changes, trend) ==
  IF changes = <<>> THEN <<0, 1>>
  ELSE
    LET consistentChanges ==
          Cardinality({i \in 1..Len(changes) :
             \/ (changes[i] > 0 /\ trend = "improving")
             \/ (changes[i] < 0 /\ trend # "improving")})
    IN <<100 * consistentChanges, Len(changes)>>

\* a magnitude without the cap at 100
UncappedMagnitudeScore(changes) ==
  IF changes = <<>> THEN <<0, 1>>
  ELSE <<5 * SeqSum([i \in 1..Len(changes) |-> Abs(changes[i])]),
         Len(changes)>>

\* calculateMagnitudeScore as a fraction: min(100, averageMagnitude * 5)
calculateMagnitudeScore(changes) ==
  IF changes = <<>> THEN <<0, 1>>
  ELSE
    LET total == SeqSum([i \in 1..Len(changes) |-> Abs(changes[i])])
    IN <<Min(100 * Len(changes), 5 * total), Len(changes)>>

\* calculateTrendStrength
calculateTrendStrength(history, trend) ==
  IF trend = "stable" THEN "weak"
  ELSE
    LET changes == calculateConsecutiveChanges(history)
        consistencyScore == calculateConsistencyScore(changes, trend)
        magnitudeScore == calculateMagnitudeScore(changes)
        \* both fractions share the denominator Len(changes) (or 1)
        num == consistencyScore[1] + magnitudeScore[1]
        den == 2 * consistencyScore[2]
    IN IF num >= 75 * den THEN "strong"
       ELSE IF num >= 50 * den THEN "moderate"
       ELSE "weak"

\* classifyMagnitude(change, threshold) for change = num / den >= 0
classifyMagnitude(num, den, threshold) ==
  IF 2 * num >= 5 * threshold * den THEN "major"
  ELSE IF 2 * num >= 3 * threshold * den THEN "moderate"
  ELSE "minor"

\* the change of one metric between the last two and the first two records
ChangeBetweenEnds(history, m) ==
  LET sortedHistory == SortAsc(history)
      recentAvg == calculateAverageScores(SliceLast(sortedHistory, 2), m)
      baselineAvg == calculateAverageScores(SliceFirst(sortedHistory, 2), m)
  IN <<recentAvg[1] * baselineAvg[2] - baselineAvg[1] * recentAvg[2],
       recentAvg[2] * baselineAvg[2]>>

\* the change of one metric between the last five and the first five records
\* of the sorted window: <<num, den>>, den = 0 when either average is null
MetricChange(history, m) ==
  LET sortedHistory == SortAsc(history)
      recentAvg == calculateAverageScores(SliceLast(sortedHistory, 5), m)
      baselineAvg == calculateAverageScores(SliceFirst(sortedHistory, 5), m)
  IN <<recentAvg[1] * baselineAvg[2] - baselineAvg[1] * recentAvg[2],
       recentAvg[2] * baselineAvg[2]>>

\* identifyImprovements: the SignificantChange list, in metric order
identifyImprovements(history, threshold) ==
  IF Len(history) < 2 THEN <<>>
  ELSE
    LET ch == [i \in 1..Len(Metrics) |-> MetricChange(history, Metrics[i])]
        hit == SelectSeq([i \in 1..Len(Metrics) |-> i],
                 LAMBDA i : ch[i][2] > 0 /\ ch[i][1] >= threshold * ch[i][2])
    IN [k \in 1..Len(hit) |->
          [category |-> Metrics[hit[k]], type |-> "improvement",
           magnitude |-> classifyMagnitude(Abs(ch[hit[k]][1]), ch[hit[k]][2],
                                           threshold)]]

\* identifyRegressions
identifyRegressions(history, threshold) ==
  IF Len(history) < 2 THEN <<>>
  ELSE
    LET ch == [i \in 1..Len(Metrics) |-> MetricChange(history, Metrics[i])]
        hit == SelectSeq([i \in 1..Len(Metrics) |-> i],
                 LAMBDA i : ch[i][2] > 0
                            /\ ch[i][1] <= (0 - threshold) * ch[i][2])
    IN [k \in 1..Len(hit) |->
          [category |-> Metrics[hit[k]], type |-> "regression",
           magnitude |-> classifyMagnitude(Abs(ch[hit[k]][1]), ch[hit[k]][2],
                                           threshold)]]

\* calculateDataConsistency as the fraction <<100 * nonNull, totalFields>>
calculateDataConsistency(history) ==
  IF history = <<>> THEN <<0, 1>>
  ELSE
    LET nullsOf(r) ==
          (IF r.seoScore = Null THEN 1 ELSE 0)
          + (IF r.accessibilityScore = Null THEN 1 ELSE 0)
          + (IF r.mobileScore = Null THEN 1 ELSE 0)
          + (IF r.performanceScore = Null THEN 1 ELSE 0)
        nullFields == SeqSum([i \in 1..Len(history) |-> nullsOf(history[i])])
        totalFields == 5 * Len(history)
    IN <<100 * (totalFields - nullFields), totalFields>>

\* calculateTimeSpanCoverage as a fraction: min(100, actual / expected * 100)
calculateTimeSpanCoverage(history, p) ==
  IF history = <<>> THEN <<0, 1>>
  ELSE
    LET sortedHistory == SortAsc(history)
        actualSpan == sortedHistory[Len(sortedHistory)].recordedAt
                        - sortedHistory[1].recordedAt
        expectedSpan == getExpectedTimeSpan(p)
    IN <<Min(100 * expectedSpan, 100 * actualSpan), expectedSpan>>

\* a freshness that ignores the age of the latest record
AlwaysFresh(history, today) == IF history = <<>> THEN 0 ELSE 100

\* calculateDataFreshness
calculateDataFreshness(history, today) ==
  IF history = <<>> THEN 0
  ELSE
    LET daysSinceLatest == today - SortDesc(history)[1].recordedAt
    IN IF daysSinceLatest <= 1 THEN 100
       ELSE IF daysSinceLatest <= 3 THEN 80
       ELSE IF daysSinceLatest <= 7 THEN 60
       ELSE IF daysSinceLatest <= 14 THEN 40
       ELSE IF daysSinceLatest <= 30 THEN 20
       ELSE 10

\* calculateConfidenceScore:
\*   round(clamp(0.30 q + 0.25 c + 0.25 t + 0.20 f)), each term a fraction
calculateConfidenceScore(history, p, today, short) ==
  LET minRequired == minimumDataPoints(p)
      q == <<Min(200 * minRequired, 100 * Len(history)), 2 * minRequired>>
      c == calculateDataConsistency(history)
      t == calculateTimeSpanCoverage(history, p)
      f == calculateDataFreshness(history, today)
      den == 20 * q[2] * c[2] * t[2]
      num == 6 * q[1] * c[2] * t[2] + 5 * c[1] * q[2] * t[2]
               + 5 * t[1] * q[2] * c[2] + 4 * f * q[2] * c[2] * t[2]
      clampedNum == Max(0, Min(100 * den, num))
  IN MathRound(clampedNum, den, short)

\* calculateVolatilityScore > 25, with the score = 2 * mean |change|
calculateVolatilityScore(history) ==
  IF Len(history) < 3 THEN <<0, 1>>
  ELSE
    LET changes == calculateConsecutiveChanges(history)
        total == SeqSum([i \in 1..Len(changes) |-> Abs(changes[i])])
    IN <<2 * total, Len(changes)>>

detectVolatility(history) ==
  LET v == calculateVolatilityScore(history) IN v[1] > 25 * v[2]

\* detectLongTermTrend(history) === 'plateauing'
IsPlateauing(history) ==
  IF Len(history) < 10 THEN FALSE
  ELSE
    LET sortedHistory == SortAsc(history)
        k == FloorDiv(Len(sortedHistory), 4)
        firstAvg == calculateAverageScores(SliceFirst(sortedHistory, k),
                                           "overall")
        lastQuarter == SliceLast(sortedHistory, k)
        lastAvg == calculateAverageScores(lastQuarter, "overall")
        num == lastAvg[1] * firstAvg[2] - firstAvg[1] * lastAvg[2]
        den == lastAvg[2] * firstAvg[2]
        recentVolatility == calculateVolatilityScore(lastQuarter)
    IN Abs(num) < 3 * den /\ recentVolatility[1] < 5 * recentVolatility[2]

\* the recommendations generateRecommendations pushes, in the order it pushes
\* them: one entry per major regression (critical), one per major
\* improvement (medium), the stability entry (high), the plateau entry
\* (medium)
DerivedRecommendations(history, improvements, regressions) ==
  LET criticalRegressions ==
        SelectSeq(regressions, LAMBDA c : c.magnitude = "major")
      significantImprovements ==
        SelectSeq(improvements, LAMBDA c : c.magnitude = "major")
      recovery == [i \in 1..Len(criticalRegressions) |->
        [priority |-> "critical", title |-> "Recovery Required",
         metric |-> criticalRegressions[i].category]]
      scale == [i \in 1..Len(significantImprovements) |->
        [priority |-> "medium", title |-> "Scale Success",
         metric |-> significantImprovements[i].category]]
      stability ==
        IF detectVolatility(history)
          THEN <<[priority |-> "high",
                  title |-> "Improve Performance Stability",
                  metric |-> "overall"]>>
          ELSE <<>>
      plateau ==
        IF Len(history) >= 10 /\ IsPlateauing(history)
          THEN <<[priority |-> "medium",
                  title |-> "Performance Innovation Strategy",
                  metric |-> "overall"]>>
          ELSE <<>>
  IN recovery \o scale \o stability \o plateau

\* a cap that sorts by priority first
SortedByPriority(recommendations) ==
  LET rank(r) == CASE r.priority = "critical" -> 1 [] r.priority = "high" -> 2
                   [] r.priority = "medium" -> 3 [] r.priority = "low" -> 4
      byRank(k) == SelectSeq(recommendations, LAMBDA r : rank(r) = k)
  IN SliceFirst(byRank(1) \o byRank(2) \o byRank(3) \o byRank(4), 5)

\* recommendations.slice(0, 5)
CapRecommendations(recommendations) == SliceFirst(recommendations, 5)

\* generateRecommendations
generateRecommendations(history, improvements, regressions) ==
  CapRecommendations(
    DerivedRecommendations(history, improvements, regressions))

\* createInsufficientDataAnalysis: the fixed "need more data" result
createInsufficientDataAnalysis(trackingId, p) ==
  [historicalTrackingId |-> trackingId, timePeriod |-> p,
   overallTrend |-> "stable", trendStrength |-> "weak",
   improvements |-> <<>>, regressions |-> <<>>,
   recommendations |-> <<[priority |-> "low",
                          title |-> "Increase Data Collection",
                          metric |-> "overall"]>>,
   confidenceScore |-> 10]

\* the InsertTrendAnalysis that generateTrendAnalysis hands to
\* createOrUpdateTrendAnalysis for the records read from the date range
\* (keyInsights, free text and rounded display values are left out)
AnalysisData(trackingId, p, history, today, short) ==
  IF Len(history) < minimumDataPoints(p)
    THEN createInsufficientDataAnalysis(trackingId, p)
    ELSE
      LET overallTrend == detectOverallTrend(history)
          improvements ==
            identifyImprovements(history, significanceThreshold(p))
          regressions ==
            identifyRegressions(history, significanceThreshold(p))
      IN [historicalTrackingId |-> trackingId, timePeriod |-> p,
          overallTrend |-> overallTrend,
          trendStrength |-> calculateTrendStrength(history, overallTrend),
          improvements |-> improvements, regressions |-> regressions,
          recommendations |->
            generateRecommendations(history, improvements, regressions),
          confidenceScore |->
            calculateConfidenceScore(history, p, today, short)]

\* ------------------------------------------------------------ the storage
VARIABLES
  impl,                \* "MemStorage" or "DatabaseStorage": the IStorage in use
  now,                 \* the clock, in days
  ticks,               \* clock advances so far
  faults,              \* storage failures injected so far
  cleanups,            \* cleanup requests so far
  reqs,                \* the requests: sequence of request records
  auditReports,        \* audit_reports
  historicalTracking,  \* historical_tracking (id = position)
  performanceHistory,  \* performance_history, in stored order
  trendAnalyses,       \* trend_analysis
  lastTrendId,         \* ids handed out to trend_analysis rows
  jobs,                \* onNewAuditRecorded invocations
  dbCleanup,           \* DatabaseStorage.cleanupExpiredData in progress
  gate,                \* the validateUrlSafety call under way
  audit,               \* the auditWebsite call under way
  scoring,             \* the scoring of a fetched page by auditWebsite
  bulk                 \* the POST /api/bulk-analysis request under way

storeVars == <<impl, now, ticks, faults, cleanups, reqs, auditReports,
               historicalTracking, performanceHistory, trendAnalyses,
               lastTrendId, jobs, dbCleanup>>

vars == <<storeVars, gate, audit, scoring, bulk>>

Impls == {"MemStorage", "DatabaseStorage"}

\* no bulk-analysis request
BulkIdle ==
  [pc |-> "idle", urls |-> <<>>, i |-> 0, stage |-> <<>>, results |-> <<>>,
   errors |-> <<>>,
   response |-> [status |-> 0, totalUrls |-> 0, successCount |-> 0,
                 errorCount |-> 0]]

\* no validateUrlSafety call
GateIdle ==
  [pc |-> "idle", url |-> [protocol |-> "", hostname |-> <<>>, ip |-> <<>>],
   resolved |-> <<>>, verdict |-> "pending", message |-> ""]

NoTarget == [protocol |-> "", hostname |-> <<>>, ip |-> <<>>, path |-> ""]

\* no error thrown
NoError == [prefix |-> "", cause |-> ""]

\* no auditWebsite call
AuditIdle ==
  [pc |-> "idle", url |-> NoTarget, anchors |-> <<>>, i |-> 0,
   absoluteUrl |-> NoTarget, isInternal |-> FALSE, checkedUrls |-> {},
   checkedCount |-> 0, brokenLinks |-> <<>>, log |-> <<>>,
   outcome |-> "pending", error |-> NoError, fields |-> {}]

\* no page is being scored
ScoringIdle == [pc |-> "idle"]

\* days the clock may jump at once
DaySteps == {8, 366}

\* the URLs submitted: [scheme, path, slash (trailing), frag (has #fragment)]
\* of https://example.com/p, https://example.com/P/#top, http://example.com/p
AuditUrls ==
  { [scheme |-> "https", path |-> "p", slash |-> FALSE, frag |-> FALSE],
    [scheme |-> "https", path |-> "P", slash |-> TRUE, frag |-> TRUE],
    [scheme |-> "http", path |-> "p", slash |-> FALSE, frag |-> FALSE] }

\* the URL of the audits that run beside trend generation
TrendUrls ==
  { [scheme |-> "https", path |-> "P", slash |-> TRUE, frag |-> TRUE] }

\* what auditWebsite may return: the scores of the report
AuditResults ==
  { [overallScore |-> 60, accessibility |-> 40, mobile |-> 70,
     performance |-> 100] }

\* a request that has no audit result (yet)
NoResult == [overallScore |-> Null, accessibility |-> Null, mobile |-> Null,
             performance |-> Null]

\* the retentionDays of a cleanup request body; Null: not given
RetentionInputs == {Null, 7}

\* String.prototype.toLowerCase on the path
LowerPath(path) == IF path = "P" THEN "p" ELSE path

\* MemStorage.canonicalizeUrl: lower-case the whole URL, drop the fragment,
\* drop one trailing slash
MemCanonicalizeUrl(u) ==
  [scheme |-> u.scheme, path |-> LowerPath(u.path), slash |-> FALSE,
   frag |-> FALSE]

\* DatabaseStorage.canonicalizeUrl: protocol https, trailing slash dropped
\* unless the path is "/", fragment dropped; the path keeps its case
DbCanonicalizeUrl(u) ==
  [scheme |-> "https", path |-> u.path, slash |-> (u.path = ""),
   frag |-> FALSE]

canonicalizeUrl(u) ==
  IF impl = "MemStorage" THEN MemCanonicalizeUrl(u) ELSE DbCanonicalizeUrl(u)

\* x || null
OrNull(x) == IF x = 0 \/ x = Null THEN Null ELSE x

TrackingIdsByUrl(canonical) ==
  {i \in 1..Len(historicalTracking) : historicalTracking[i].url = canonical}

\* a table without the constraint
NoUniqueUrl(canonical) == FALSE

\* unique().on(table.url) of historical_tracking
UniqueUrlViolated(canonical) == TrackingIdsByUrl(canonical) # {}

\* unique().on(table.auditReportId) of performance_history
UniqueAuditReportViolated(reportId) ==
  \E i \in 1..Len(performanceHistory) :
    performanceHistory[i].auditReportId = reportId

TrendRows(trackingId, p) ==
  {i \in 1..Len(trendAnalyses) :
     /\ trendAnalyses[i].historicalTrackingId = trackingId
     /\ trendAnalyses[i].timePeriod = p}

\* a table without the constraint
NoUniqueTrackingPeriod(trackingId, p) == FALSE

\* unique().on(table.historicalTrackingId, table.timePeriod) of trend_analysis
UniqueTrackingPeriodViolated(trackingId, p) == TrendRows(trackingId, p) # {}

HistoryOf(trackingId) ==
  SelectSeq(performanceHistory,
            LAMBDA h : h.historicalTrackingId = trackingId)

\* getPerformanceHistoryByDateRange: MemStorage filters the stored array,
\* DatabaseStorage orders by recordedAt
getPerformanceHistoryByDateRange(trackingId, startDate, endDate) ==
  LET inRange == SelectSeq(HistoryOf(trackingId),
        LAMBDA h : h.recordedAt >= startDate /\ h.recordedAt <= endDate)
  IN IF impl = "MemStorage" THEN inRange ELSE SortAsc(inRange)

ReportById(id) == auditReports[id]

\* the InsertPerformanceHistory built by recordAuditInHistory and stored by
\* createPerformanceHistory
MemHistoryRecord(trackingId, report) ==
  [historicalTrackingId |-> trackingId, auditReportId |-> report.id,
   recordedAt |-> now, overallScore |-> report.overallScore,
   seoScore |-> OrNull(report.overallScore),
   accessibilityScore |-> OrNull(report.overallScore),
   mobileScore |-> OrNull(report.overallScore),
   performanceScore |-> OrNull(report.overallScore)]

DbHistoryRecord(trackingId, report) ==
  [historicalTrackingId |-> trackingId, auditReportId |-> report.id,
   recordedAt |-> now, overallScore |-> report.overallScore,
   seoScore |-> report.overallScore,
   accessibilityScore |-> report.accessibility,
   mobileScore |-> report.mobile,
   performanceScore |-> report.performance]

\* ---- requests
NewRequest(kind, url, pc, report) ==
  [kind |-> kind, url |-> url, pc |-> pc, result |-> NoResult,
   report |-> report,
   tid |-> 0, outcome |-> "pending", cause |-> "none"]

FirstRecordPc == IF impl = "MemStorage" THEN "tracking" ELSE "trackingSelect"

Fail(r, cause) ==
  [reqs EXCEPT ![r].pc = "responded", ![r].outcome = "error",
               ![r].cause = cause]

AuditCount == Len(SelectSeq(reqs, LAMBDA q : q.kind = "audit"))

RecordCount == Len(SelectSeq(reqs, LAMBDA q : q.kind = "record"))

\* an audit is requested (POST /api/audit, or one URL of a bulk-analysis
\* batch) and auditService.auditWebsite(url) settles: with a result, or with
\* an error that is answered right away.  The audit touches no storage.
PostAudit(u) ==
  /\ \/ \E res \in AuditResults :
          reqs' = Append(reqs,
            [NewRequest("audit", u, "createAuditReport", 0)
               EXCEPT !.result = res])
     \/ reqs' = Append(reqs,
          [NewRequest("audit", u, "responded", 0)
             EXCEPT !.outcome = "error", !.cause = "audit"])
  /\ UNCHANGED <<gate, audit, scoring, bulk>>
  /\ UNCHANGED <<impl, now, ticks, faults, cleanups, auditReports,
                 historicalTracking, performanceHistory, trendAnalyses,
                 lastTrendId, jobs, dbCleanup>>

\* storage.createAuditReport
CreateAuditReport(r) ==
  /\ reqs[r].pc = "createAuditReport"
  /\ LET id == Len(auditReports) + 1
         res == reqs[r].result
     IN /\ auditReports' = Append(auditReports,
             [id |-> id, url |-> reqs[r].url,
              overallScore |-> res.overallScore,
              accessibility |-> res.accessibility, mobile |-> res.mobile,
              performance |-> res.performance, analysisDate |-> now])
        /\ reqs' = [reqs EXCEPT ![r].pc = FirstRecordPc, ![r].report = id]
  /\ UNCHANGED <<gate, audit, scoring, bulk>>
  /\ UNCHANGED <<impl, now, ticks, faults, cleanups, historicalTracking,
                 performanceHistory, trendAnalyses, lastTrendId, jobs,
                 dbCleanup>>

\* POST /api/audit/:id/record-history for a stored report
StartRecordHistory(id) ==
  /\ id \in 1..Len(auditReports)
  /\ reqs' = Append(reqs,
       NewRequest("record", ReportById(id).url, FirstRecordPc, id))
  /\ UNCHANGED <<gate, audit, scoring, bulk>>
  /\ UNCHANGED <<impl, now, ticks, faults, cleanups, auditReports,
                 historicalTracking, performanceHistory, trendAnalyses,
                 lastTrendId, jobs, dbCleanup>>

NewTracking(canonical) ==
  [url |-> canonical, totalAudits |-> 0, lastAuditDate |-> now,
   isActive |-> TRUE, retentionDays |-> 365]

\* MemStorage.createOrUpdateHistoricalTracking: find by canonical URL, else
\* create; no await in between
CreateOrUpdateHistoricalTracking(r) ==
  /\ impl = "MemStorage"
  /\ reqs[r].pc = "tracking"
  /\ LET canonical == canonicalizeUrl(reqs[r].url)
         existing == TrackingIdsByUrl(canonical)
     IN IF existing # {}
          THEN /\ reqs' = [reqs EXCEPT ![r].pc = "stats",
                             ![r].tid = CHOOSE i \in existing :
                                          \A k \in existing : i <= k]
               /\ UNCHANGED historicalTracking
          ELSE /\ historicalTracking' =
                    Append(historicalTracking, NewTracking(canonical))
               /\ reqs' = [reqs EXCEPT ![r].pc = "stats",
                             ![r].tid = Len(historicalTracking) + 1]
  /\ UNCHANGED <<gate, audit, scoring, bulk>>
  /\ UNCHANGED <<impl, now, ticks, faults, cleanups, auditReports,
                 performanceHistory, trendAnalyses, lastTrendId, jobs,
                 dbCleanup>>

\* DatabaseStorage.createOrUpdateHistoricalTracking, first statement:
\* getHistoricalTrackingByUrl (SELECT ... LIMIT 1)
DbSelectTracking(r) ==
  /\ impl = "DatabaseStorage"
  /\ reqs[r].pc = "trackingSelect"
  /\ LET existing == TrackingIdsByUrl(canonicalizeUrl(reqs[r].url))
     IN IF existing # {}
          THEN \E i \in existing :
                 reqs' = [reqs EXCEPT ![r].pc = "history", ![r].tid = i]
          ELSE reqs' = [reqs EXCEPT ![r].pc = "trackingInsert"]
  /\ UNCHANGED <<gate, audit, scoring, bulk>>
  /\ UNCHANGED <<impl, now, ticks, faults, cleanups, auditReports,
                 historicalTracking, performanceHistory, trendAnalyses,
                 lastTrendId, jobs, dbCleanup>>

\* DatabaseStorage.createOrUpdateHistoricalTracking, second statement:
\* INSERT, refused by the unique constraint on url
DbInsertTracking(r) ==
  /\ impl = "DatabaseStorage"
  /\ reqs[r].pc = "trackingInsert"
  /\ LET canonical == canonicalizeUrl(reqs[r].url)
     IN IF UniqueUrlViolated(canonical)
          THEN /\ reqs' = Fail(r, "storage")
               /\ UNCHANGED historicalTracking
          ELSE /\ historicalTracking' =
                    Append(historicalTracking, NewTracking(canonical))
               /\ reqs' = [reqs EXCEPT ![r].pc = "history",
                             ![r].tid = Len(historicalTracking) + 1]
  /\ UNCHANGED <<gate, audit, scoring, bulk>>
  /\ UNCHANGED <<impl, now, ticks, faults, cleanups, auditReports,
                 performanceHistory, trendAnalyses, lastTrendId, jobs,
                 dbCleanup>>

\* updateTrackingStats: lastAuditDate = analysisDate, totalAudits + 1.
\* MemStorage calls it before createPerformanceHistory, DatabaseStorage after.
UpdateTrackingStats(r) ==
  /\ reqs[r].pc = "stats"
  /\ LET t == reqs[r].tid
     IN historicalTracking' =
          [historicalTracking EXCEPT
             ![t].lastAuditDate = ReportById(reqs[r].report).analysisDate,
             ![t].totalAudits = @ + 1]
  /\ reqs' = [reqs EXCEPT ![r].pc =
                IF impl = "MemStorage" THEN "history" ELSE "insights"]
  /\ UNCHANGED <<gate, audit, scoring, bulk>>
  /\ UNCHANGED <<impl, now, ticks, faults, cleanups, auditReports,
                 performanceHistory, trendAnalyses, lastTrendId, jobs,
                 dbCleanup>>

\* createPerformanceHistory: MemStorage pushes onto the tracking's array,
\* DatabaseStorage inserts unless the unique constraint on auditReportId
\* refuses
CreatePerformanceHistory(r) ==
  /\ reqs[r].pc = "history"
  /\ LET report == ReportById(reqs[r].report)
         nextPc == IF impl = "MemStorage" THEN "insights" ELSE "stats"
     IN IF impl = "DatabaseStorage" /\ UniqueAuditReportViolated(report.id)
          THEN /\ reqs' = Fail(r, "storage")
               /\ UNCHANGED performanceHistory
          ELSE /\ performanceHistory' = Append(performanceHistory,
                    IF impl = "MemStorage"
                      THEN MemHistoryRecord(reqs[r].tid, report)
                      ELSE DbHistoryRecord(reqs[r].tid, report))
               /\ reqs' = [reqs EXCEPT ![r].pc = nextPc]
  /\ UNCHANGED <<gate, audit, scoring, bulk>>
  /\ UNCHANGED <<impl, now, ticks, faults, cleanups, auditReports,
                 historicalTracking, trendAnalyses, lastTrendId, jobs,
                 dbCleanup>>

\* ---- trend jobs: one per onNewAuditRecorded call
\* A job works through its four windows in the order of Periods.  The four
\* generateTrendAnalysis calls of one onNewAuditRecorded touch four different
\* (trackingId, timePeriod) keys, so every interleaving of the steps on one
\* key, across jobs and with the requests, is still produced.
NoOutcomes == [i \in 1..Len(Periods) |-> "pending"]

\* the four date-range reads MemStorage performs inside the call itself
MemHistories(trackingId) ==
  [i \in 1..Len(Periods) |->
     LET range == calculateDateRange(Periods[i], now)
     IN getPerformanceHistoryByDateRange(trackingId, range.startDate,
                                         range.endDate)]

\* a read that sorts the stored array in place, newest first, as
\* getPerformanceHistoryByTracking does
SortedInPlace(histories) == SortDesc(histories)

\* the stored arrays after getPerformanceHistoryByDateRange: filter builds a
\* new array and leaves the stored one as it is
HistoryAfterRead(histories) == histories

\* performance_history after the reads of a new onNewAuditRecorded call
HistoryAfterJobReads ==
  IF impl = "MemStorage" THEN HistoryAfterRead(performanceHistory)
  ELSE performanceHistory

\* seen[i] is what the read of the i-th window found stored: the records the
\* local performanceHistory of that generateTrendAnalysis call was taken from
NewJob(r, trackingId, source) ==
  [req |-> r, tid |-> trackingId, source |-> source, w |-> 1, st |-> "read",
   hists |-> IF impl = "MemStorage" THEN MemHistories(trackingId) ELSE <<>>,
   seen |-> [i \in 1..Len(Periods) |->
               IF impl = "MemStorage" THEN HistoryOf(trackingId) ELSE <<>>],
   analysis |-> <<>>, existing |-> 0, outcomes |-> NoOutcomes,
   status |-> "running"]

\* a caller that awaits the call
AwaitsAlways == TRUE

\* the calls of onNewAuditRecorded carry no await: the caller goes on at once
AwaitsInsights == FALSE

JobsOf(r) == {j \in 1..Len(jobs) : jobs[j].req = r}

InsightsSettled(r) == \A j \in JobsOf(r) : jobs[j].status # "running"

\* recordAuditInHistory, last statements: onNewAuditRecorded(tracking.id)
\* with a .catch, then return { tracking, history }
TriggerInsights(r) ==
  /\ reqs[r].pc = "insights"
  /\ jobs' = Append(jobs, NewJob(r, reqs[r].tid, "storage"))
  /\ performanceHistory' = HistoryAfterJobReads
  /\ reqs' = [reqs EXCEPT ![r].pc = "routeAfter"]
  /\ UNCHANGED <<gate, audit, scoring, bulk>>
  /\ UNCHANGED <<impl, now, ticks, faults, cleanups, auditReports,
                 historicalTracking, trendAnalyses, lastTrendId, dbCleanup>>

\* the route after await storage.recordAuditInHistory(report): POST /api/audit
\* triggers onNewAuditRecorded a second time and answers with the report;
\* record-history answers 201
RouteAfterRecord(r) ==
  /\ reqs[r].pc = "routeAfter"
  /\ ~AwaitsInsights \/ InsightsSettled(r)
  /\ jobs' = IF reqs[r].kind = "audit"
               THEN Append(jobs, NewJob(r, reqs[r].tid, "route"))
               ELSE jobs
  /\ performanceHistory' = IF reqs[r].kind = "audit"
                             THEN HistoryAfterJobReads
                             ELSE performanceHistory
  /\ reqs' = [reqs EXCEPT ![r].pc = "responded", ![r].outcome = "ok"]
  /\ UNCHANGED <<gate, audit, scoring, bulk>>
  /\ UNCHANGED <<impl, now, ticks, faults, cleanups, auditReports,
                 historicalTracking, trendAnalyses, lastTrendId, dbCleanup>>

\* the job after its current window has settled with the given outcome
NextWindow(job, outcome) ==
  [job EXCEPT !.outcomes[job.w] = outcome,
              !.w = job.w + 1, !.st = "read",
              !.analysis = <<>>, !.existing = 0,
              !.hists = IF job.w < Len(job.hists)
                          THEN [i \in 1..Len(job.hists) |->
                                  IF i <= job.w THEN <<>> ELSE job.hists[i]]
                          ELSE <<>>,
              !.status = IF job.w = Len(Periods) THEN "fulfilled"
                         ELSE "running"]

\* a window whose error escapes: Promise.all rejects, and so does the call
RethrowWindowError(job) ==
  [job EXCEPT !.outcomes[job.w] = "thrown", !.w = Len(Periods) + 1,
              !.st = "read", !.analysis = <<>>, !.existing = 0,
              !.hists = <<>>, !.status = "rejected"]

\* the catch of onNewAuditRecorded: the error is logged, the other windows
\* go on
OnWindowError(job) == NextWindow(job, "logged")

Running(j) == jobs[j].status = "running"

TrendRow(id, analysis) ==
  [id |-> id, historicalTrackingId |-> analysis.historicalTrackingId,
   timePeriod |-> analysis.timePeriod,
   overallTrend |-> analysis.overallTrend,
   trendStrength |-> analysis.trendStrength,
   improvements |-> analysis.improvements,
   regressions |-> analysis.regressions,
   recommendations |-> analysis.recommendations,
   confidenceScore |-> analysis.confidenceScore, analysisDate |-> now]

\* MemStorage.createOrUpdateTrendAnalysis: Map.set under the key
\* `${trackingId}_${timePeriod}`; an existing entry keeps its id
MemCreateOrUpdateTrendAnalysis(rows, lastId, analysis) ==
  LET hit == {i \in 1..Len(rows) :
                /\ rows[i].historicalTrackingId = analysis.historicalTrackingId
                /\ rows[i].timePeriod = analysis.timePeriod}
  IN IF hit # {}
       THEN [i \in 1..Len(rows) |->
               IF i \in hit THEN TrendRow(rows[i].id, analysis) ELSE rows[i]]
       ELSE Append(rows, TrendRow(lastId + 1, analysis))

\* continuations that run in any order
AnyTurn(j) == TRUE

\* every await of generateTrendAnalysis on MemStorage is on a promise that is
\* already resolved, so the calls go on as promise jobs, in the order in
\* which they were started: a call stores after the calls started before it
MemTurn(j) == \A k \in 1..(j - 1) : ~Running(k)

\* generateTrendAnalysis on MemStorage, after the read: the analysis is
\* computed and handed to createOrUpdateTrendAnalysis
MemGenerateTrendAnalysis(j) ==
  /\ impl = "MemStorage"
  /\ Running(j)
  /\ MemTurn(j)
  /\ \E short \in BOOLEAN :
     LET job == jobs[j]
         p == Periods[job.w]
         analysis == AnalysisData(job.tid, p, job.hists[job.w], now, short)
     IN /\ trendAnalyses' =
             MemCreateOrUpdateTrendAnalysis(trendAnalyses, lastTrendId,
                                            analysis)
        /\ lastTrendId' = IF TrendRows(job.tid, p) = {} THEN lastTrendId + 1
                          ELSE lastTrendId
        /\ jobs' = [jobs EXCEPT ![j] = NextWindow(job, "stored")]
  /\ UNCHANGED <<gate, audit, scoring, bulk>>
  /\ UNCHANGED <<impl, now, ticks, faults, cleanups, reqs, auditReports,
                 historicalTracking, performanceHistory, dbCleanup>>

\* generateTrendAnalysis on DatabaseStorage, first statement: the SELECT of
\* getPerformanceHistoryByDateRange; the analysis follows from its result
DbReadHistory(j) ==
  /\ impl = "DatabaseStorage"
  /\ Running(j)
  /\ jobs[j].st = "read"
  /\ \E short \in BOOLEAN :
     LET job == jobs[j]
         p == Periods[job.w]
         range == calculateDateRange(p, now)
         history == getPerformanceHistoryByDateRange(job.tid, range.startDate,
                                                     range.endDate)
     IN jobs' = [jobs EXCEPT ![j].st = "select",
                   ![j].seen[job.w] = HistoryOf(job.tid),
                   ![j].analysis =
                     <<AnalysisData(job.tid, p, history, now, short)>>]
  /\ UNCHANGED <<gate, audit, scoring, bulk>>
  /\ UNCHANGED <<impl, now, ticks, faults, cleanups, reqs, auditReports,
                 historicalTracking, performanceHistory, trendAnalyses,
                 lastTrendId, dbCleanup>>

\* DatabaseStorage.createOrUpdateTrendAnalysis, first statement:
\* getTrendAnalysis (SELECT ... LIMIT 1)
DbSelectTrend(j) ==
  /\ impl = "DatabaseStorage"
  /\ Running(j)
  /\ jobs[j].st = "select"
  /\ LET rows == TrendRows(jobs[j].tid, Periods[jobs[j].w])
     IN IF rows = {}
          THEN jobs' = [jobs EXCEPT ![j].st = "write", ![j].existing = 0]
          ELSE \E i \in rows :
                 jobs' = [jobs EXCEPT ![j].st = "write",
                                      ![j].existing = trendAnalyses[i].id]
  /\ UNCHANGED <<gate, audit, scoring, bulk>>
  /\ UNCHANGED <<impl, now, ticks, faults, cleanups, reqs, auditReports,
                 historicalTracking, performanceHistory, trendAnalyses,
                 lastTrendId, dbCleanup>>

\* DatabaseStorage.createOrUpdateTrendAnalysis, second statement: UPDATE of
\* the row found, or INSERT, refused by the unique constraint
DbWriteTrend(j) ==
  /\ impl = "DatabaseStorage"
  /\ Running(j)
  /\ jobs[j].st = "write"
  /\ LET job == jobs[j]
         analysis == job.analysis[1]
     IN IF job.existing # 0
          THEN /\ trendAnalyses' =
                    [i \in 1..Len(trendAnalyses) |->
                       IF trendAnalyses[i].id = job.existing
                         THEN TrendRow(job.existing, analysis)
                         ELSE trendAnalyses[i]]
               /\ jobs' = [jobs EXCEPT ![j] = NextWindow(job, "stored")]
               /\ UNCHANGED lastTrendId
          ELSE IF UniqueTrackingPeriodViolated(job.tid, Periods[job.w])
            THEN /\ jobs' = [jobs EXCEPT ![j] = OnWindowError(job)]
                 /\ UNCHANGED <<trendAnalyses, lastTrendId>>
            ELSE /\ trendAnalyses' =
                      Append(trendAnalyses,
                             TrendRow(lastTrendId + 1, analysis))
                 /\ lastTrendId' = lastTrendId + 1
                 /\ jobs' = [jobs EXCEPT ![j] = NextWindow(job, "stored")]
  /\ UNCHANGED <<gate, audit, scoring, bulk>>
  /\ UNCHANGED <<impl, now, ticks, faults, cleanups, reqs, auditReports,
                 historicalTracking, performanceHistory, dbCleanup>>

\* a statement of the job's current window is rejected by the database
\* (connection lost, timeout): generateTrendAnalysis throws
WindowFails(j) ==
  /\ impl = "DatabaseStorage"
  /\ Running(j)
  /\ faults < MaxFaults
  /\ faults' = faults + 1
  /\ jobs' = [jobs EXCEPT ![j] = OnWindowError(jobs[j])]
  /\ UNCHANGED <<gate, audit, scoring, bulk>>
  /\ UNCHANGED <<impl, now, ticks, cleanups, reqs, auditReports,
                 historicalTracking, performanceHistory, trendAnalyses,
                 lastTrendId, dbCleanup>>

\* ---- cleanup and the clock
CleanupIdle == [phase |-> "idle", retention |-> Null, todo |-> <<>>]

\* the default of MemStorage.cleanupExpiredData(retentionDays = 90)
MemRetention(retentionDays) ==
  IF retentionDays = Null THEN 90 ELSE retentionDays

\* MemStorage.cleanupExpiredData: every history array is filtered to the
\* records newer than the cutoff; nothing else is touched
MemCleanupExpiredData(retentionDays) ==
  /\ impl = "MemStorage"
  /\ cleanups < MaxCleanups
  /\ cleanups' = cleanups + 1
  /\ LET cutoffDate == now - MemRetention(retentionDays)
     IN performanceHistory' =
          SelectSeq(performanceHistory, LAMBDA h : h.recordedAt > cutoffDate)
  /\ UNCHANGED <<gate, audit, scoring, bulk>>
  /\ UNCHANGED <<impl, now, ticks, faults, reqs, auditReports,
                 historicalTracking, trendAnalyses, lastTrendId, jobs,
                 dbCleanup>>

\* getActiveTrackings: the active rows, latest lastAuditDate first
RECURSIVE OrderTrackings(_)
OrderTrackings(ids) ==
  IF ids = {} THEN <<>>
  ELSE LET first == CHOOSE i \in ids : \A k \in ids :
                      \/ historicalTracking[i].lastAuditDate >
                           historicalTracking[k].lastAuditDate
                      \/ /\ historicalTracking[i].lastAuditDate =
                              historicalTracking[k].lastAuditDate
                         /\ i <= k
       IN <<first>> \o OrderTrackings(ids \ {first})

getActiveTrackings ==
  OrderTrackings({i \in 1..Len(historicalTracking) :
                    historicalTracking[i].isActive})

\* DatabaseStorage.cleanupExpiredData is called: with retentionDays the
\* global branch, without it the branch per active tracking
DbCleanupStart(retentionDays) ==
  /\ impl = "DatabaseStorage"
  /\ cleanups < MaxCleanups
  /\ dbCleanup.phase = "idle"
  /\ cleanups' = cleanups + 1
  /\ dbCleanup' = IF retentionDays # Null /\ retentionDays # 0
                    THEN [phase |-> "history", retention |-> retentionDays,
                          todo |-> <<>>]
                    ELSE [phase |-> "trackings", retention |-> Null,
                          todo |-> <<>>]
  /\ UNCHANGED <<gate, audit, scoring, bulk>>
  /\ UNCHANGED <<impl, now, ticks, faults, reqs, auditReports,
                 historicalTracking, performanceHistory, trendAnalyses,
                 lastTrendId, jobs>>

\* the SELECT of getActiveTrackings
DbCleanupTrackings ==
  /\ dbCleanup.phase = "trackings"
  /\ LET active == getActiveTrackings
     IN dbCleanup' = IF active = <<>> THEN CleanupIdle
                     ELSE [phase |-> "history", retention |-> Null,
                           todo |-> active]
  /\ UNCHANGED <<gate, audit, scoring, bulk>>
  /\ UNCHANGED <<impl, now, ticks, faults, cleanups, reqs, auditReports,
                 historicalTracking, performanceHistory, trendAnalyses,
                 lastTrendId, jobs>>

\* the rows a DELETE of the cleanup in progress applies to, and its cutoff
CleanupCovers(trackingId) ==
  dbCleanup.todo = <<>> \/ dbCleanup.todo[1] = trackingId

CleanupCutoff ==
  IF dbCleanup.todo = <<>> THEN now - dbCleanup.retention
  ELSE now - historicalTracking[dbCleanup.todo[1]].retentionDays

\* DELETE FROM performance_history WHERE recorded_at < cutoff
DbCleanupHistory ==
  /\ dbCleanup.phase = "history"
  /\ performanceHistory' =
       SelectSeq(performanceHistory,
                 LAMBDA h : ~(/\ CleanupCovers(h.historicalTrackingId)
                              /\ h.recordedAt < CleanupCutoff))
  /\ dbCleanup' = [dbCleanup EXCEPT !.phase = "trends"]
  /\ UNCHANGED <<gate, audit, scoring, bulk>>
  /\ UNCHANGED <<impl, now, ticks, faults, cleanups, reqs, auditReports,
                 historicalTracking, trendAnalyses, lastTrendId, jobs>>

\* DELETE FROM trend_analysis WHERE analysis_date < cutoff, then the next
\* tracking of the loop, if any
DbCleanupTrends ==
  /\ dbCleanup.phase = "trends"
  /\ trendAnalyses' =
       SelectSeq(trendAnalyses,
                 LAMBDA a : ~(/\ CleanupCovers(a.historicalTrackingId)
                              /\ a.analysisDate < CleanupCutoff))
  /\ dbCleanup' = IF Len(dbCleanup.todo) > 1
                    THEN [dbCleanup EXCEPT !.phase = "history",
                                           !.todo = Tail(dbCleanup.todo)]
                    ELSE CleanupIdle
  /\ UNCHANGED <<gate, audit, scoring, bulk>>
  /\ UNCHANGED <<impl, now, ticks, faults, cleanups, reqs, auditReports,
                 historicalTracking, performanceHistory, lastTrendId, jobs>>

\* no request, job or cleanup is under way
Quiescent ==
  /\ \A r \in 1..Len(reqs) : reqs[r].pc = "responded"
  /\ \A j \in 1..Len(jobs) : ~Running(j)
  /\ dbCleanup.phase = "idle"

\* days pass; requests and jobs last seconds, so the date changes between them
Tick(days) ==
  /\ ticks < MaxTicks
  /\ Quiescent
  /\ now' = now + days
  /\ ticks' = ticks + 1
  /\ UNCHANGED <<gate, audit, scoring, bulk>>
  /\ UNCHANGED <<impl, faults, cleanups, reqs, auditReports,
                 historicalTracking, performanceHistory, trendAnalyses,
                 lastTrendId, jobs, dbCleanup>>

Init ==
  /\ impl \in Impls
  /\ now = 0
  /\ ticks = 0
  /\ faults = 0
  /\ cleanups = 0
  /\ reqs = <<>>
  /\ auditReports = <<>>
  /\ historicalTracking = <<>>
  /\ performanceHistory = <<>>
  /\ trendAnalyses = <<>>
  /\ lastTrendId = 0
  /\ jobs = <<>>
  /\ dbCleanup = CleanupIdle
  /\ bulk = BulkIdle
  /\ gate = GateIdle
  /\ audit = AuditIdle
  /\ scoring = ScoringIdle

Next ==
  \/ \E u \in TrendUrls : AuditCount < MaxAudits /\ PostAudit(u)
  \/ \E id \in 1..Len(auditReports) :
       RecordCount < MaxRecords /\ StartRecordHistory(id)
  \/ \E r \in 1..Len(reqs) : CreateAuditReport(r)
  \/ \E r \in 1..Len(reqs) : CreateOrUpdateHistoricalTracking(r)
  \/ \E r \in 1..Len(reqs) : DbSelectTracking(r)
  \/ \E r \in 1..Len(reqs) : DbInsertTracking(r)
  \/ \E r \in 1..Len(reqs) : UpdateTrackingStats(r)
  \/ \E r \in 1..Len(reqs) : CreatePerformanceHistory(r)
  \/ \E r \in 1..Len(reqs) : TriggerInsights(r)
  \/ \E r \in 1..Len(reqs) : RouteAfterRecord(r)
  \/ \E j \in 1..Len(jobs) : MemGenerateTrendAnalysis(j)
  \/ \E j \in 1..Len(jobs) : DbReadHistory(j)
  \/ \E j \in 1..Len(jobs) : DbSelectTrend(j)
  \/ \E j \in 1..Len(jobs) : DbWriteTrend(j)
  \/ \E j \in 1..Len(jobs) : WindowFails(j)
  \/ \E d \in RetentionInputs : MemCleanupExpiredData(d)
  \/ \E d \in RetentionInputs : DbCleanupStart(d)
  \/ DbCleanupTrackings
  \/ DbCleanupHistory
  \/ DbCleanupTrends
  \/ \E d \in DaySteps : Tick(d)

Spec == Init /\ [][Next]_vars

\* Two audits of one URL on DatabaseStorage, the second sent while a trend
\* computation of the first is still waiting for its first SELECT.
MaxRaceAudits == 2

RaceUrl == CHOOSE u \in TrendUrls : TRUE

RaceResult == CHOOSE res \in AuditResults : TRUE

RaceReport ==
  [id |-> 1, url |-> RaceUrl, overallScore |-> RaceResult.overallScore,
   accessibility |-> RaceResult.accessibility, mobile |-> RaceResult.mobile,
   performance |-> RaceResult.performance, analysisDate |-> 0]

\* the first audit has answered and its record is stored; the computation
\* its route started has stored its four windows, the one recordAuditInHistory
\* started has not read yet
InitRace ==
  /\ impl = "DatabaseStorage"
  /\ now = 0
  /\ ticks = 0
  /\ faults = 0
  /\ cleanups = 0
  /\ reqs = << [NewRequest("audit", RaceUrl, "responded", 1)
                  EXCEPT !.result = RaceResult, !.tid = 1,
                         !.outcome = "ok"] >>
  /\ auditReports = <<RaceReport>>
  /\ historicalTracking =
       << [NewTracking(canonicalizeUrl(RaceUrl)) EXCEPT !.totalAudits = 1] >>
  /\ performanceHistory = <<DbHistoryRecord(1, RaceReport)>>
  /\ trendAnalyses =
       [i \in 1..Len(Periods) |->
          TrendRow(i, AnalysisData(1, Periods[i], performanceHistory, now,
                                   FALSE))]
  /\ lastTrendId = Len(Periods)
  /\ jobs = << NewJob(1, 1, "storage"),
               [NewJob(1, 1, "route")
                  EXCEPT !.w = Len(Periods) + 1,
                         !.seen = [i \in 1..Len(Periods) |->
                                     performanceHistory],
                         !.outcomes = [i \in 1..Len(Periods) |-> "stored"],
                         !.status = "fulfilled"] >>
  /\ dbCleanup = CleanupIdle
  /\ bulk = BulkIdle
  /\ gate = GateIdle
  /\ audit = AuditIdle
  /\ scoring = ScoringIdle

NextRace ==
  \/ \E u \in TrendUrls : AuditCount < MaxRaceAudits /\ PostAudit(u)
  \/ \E r \in 1..Len(reqs) : CreateAuditReport(r)
  \/ \E r \in 1..Len(reqs) : DbSelectTracking(r)
  \/ \E r \in 1..Len(reqs) : UpdateTrackingStats(r)
  \/ \E r \in 1..Len(reqs) : CreatePerformanceHistory(r)
  \/ \E r \in 1..Len(reqs) : TriggerInsights(r)
  \/ \E r \in 1..Len(reqs) : RouteAfterRecord(r)
  \/ \E j \in 1..Len(jobs) : DbReadHistory(j)
  \/ \E j \in 1..Len(jobs) : DbSelectTrend(j)
  \/ \E j \in 1..Len(jobs) : DbWriteTrend(j)

SpecRace == InitRace /\ [][NextRace]_vars
\* A bulk-analysis batch: audits of several URLs side by side, and the
\* recording of their reports.  The trend jobs they start never write
\* historical_tracking or performance_history and are left where they start.
NextBulk ==
  \/ \E u \in AuditUrls : AuditCount < MaxBatch /\ PostAudit(u)
  \/ \E id \in 1..Len(auditReports) :
       RecordCount < MaxRecords /\ StartRecordHistory(id)
  \/ \E r \in 1..Len(reqs) : CreateAuditReport(r)
  \/ \E r \in 1..Len(reqs) : CreateOrUpdateHistoricalTracking(r)
  \/ \E r \in 1..Len(reqs) : DbSelectTracking(r)
  \/ \E r \in 1..Len(reqs) : DbInsertTracking(r)
  \/ \E r \in 1..Len(reqs) : UpdateTrackingStats(r)
  \/ \E r \in 1..Len(reqs) : CreatePerformanceHistory(r)
  \/ \E r \in 1..Len(reqs) : TriggerInsights(r)
  \/ \E r \in 1..Len(reqs) : RouteAfterRecord(r)

SpecBulk == Init /\ [][NextBulk]_vars

\* ---- POST /api/bulk-analysis: the loop over the batches
MaxBulkUrls == 7

\* .min(1) and .max(20) of bulkAnalysisRequestSchema
MinUrlsPerRequest == 1

MaxUrlsPerRequest == 20

\* const concurrency = 3
concurrency == 3

\* the submitted list: n URLs, every second one a repetition
BulkUrlList(n) == [i \in 1..n |-> IF i % 2 = 1 THEN "a.example" ELSE "b.example"]

\* urls.slice(i, i + concurrency), as positions of urls
BatchAt(i, n) == (i + 1)..Min(i + concurrency, n)

\* the audits that have been started and have not returned
InFlight == {pos \in 1..Len(bulk.stage) : bulk.stage[pos] \in {"audit", "record"}}

\* the request is parsed: a list the schema refuses is answered 400 by the
\* outer catch, otherwise the loop starts with empty results and errors
PostBulkAnalysis(n) ==
  /\ bulk.pc = "idle"
  /\ bulk' =
       IF n < MinUrlsPerRequest \/ n > MaxUrlsPerRequest
         THEN [BulkIdle EXCEPT !.pc = "responded", !.response.status = 400]
         ELSE [BulkIdle EXCEPT !.pc = "loop", !.urls = BulkUrlList(n),
                               !.stage = [pos \in 1..n |-> "waiting"]]
  /\ UNCHANGED <<storeVars, gate, audit, scoring>>

\* one pass of the for loop up to await Promise.all: batch.map starts the
\* async callback of every URL of the batch, each up to its auditWebsite call
BulkBatchStarts ==
  /\ bulk.pc = "loop"
  /\ bulk.i < Len(bulk.urls)
  /\ bulk' = [bulk EXCEPT !.pc = "await",
                !.stage = [pos \in 1..Len(bulk.urls) |->
                             IF pos \in BatchAt(bulk.i, Len(bulk.urls))
                               THEN "audit" ELSE bulk.stage[pos]]]
  /\ UNCHANGED <<storeVars, gate, audit, scoring>>

\* an error that escapes the callback: Promise.all rejects and the outer
\* catch answers 400
RejectBatch(b, pos) ==
  [b EXCEPT !.stage[pos] = "error", !.pc = "responded",
            !.response.status = 400]

\* the catch of the callback: it returns { status: 'error', url, error }
CatchUrlError(b, pos) == [b EXCEPT !.stage[pos] = "error"]

\* auditService.auditWebsite(url) settles
BulkAuditSettles(pos, ok) ==
  /\ pos \in 1..Len(bulk.stage)
  /\ bulk.stage[pos] = "audit"
  /\ bulk' = IF ok THEN [bulk EXCEPT !.stage[pos] = "record"]
             ELSE CatchUrlError(bulk, pos)
  /\ UNCHANGED <<storeVars, gate, audit, scoring>>

\* createAuditReport and recordAuditInHistory settle: the callback returns
\* { status: 'success', url, report }, or its catch the error
BulkRecordSettles(pos, ok) ==
  /\ pos \in 1..Len(bulk.stage)
  /\ bulk.stage[pos] = "record"
  /\ bulk' = IF ok THEN [bulk EXCEPT !.stage[pos] = "success"]
             ELSE CatchUrlError(bulk, pos)
  /\ UNCHANGED <<storeVars, gate, audit, scoring>>

\* the entries of the batch with the given status, in the order of the batch
RECURSIVE BatchEntries(_, _, _)
BatchEntries(b, positions, status) ==
  IF positions = {} THEN <<>>
  ELSE LET pos == CHOOSE x \in positions : \A y \in positions : x <= y
           rest == BatchEntries(b, positions \ {pos}, status)
       IN IF b.stage[pos] = status
            THEN <<[url |-> b.urls[pos], pos |-> pos]>> \o rest
            ELSE rest

\* Promise.all(batchPromises) resolves once every callback has returned; the
\* batch results are separated into results and errors and i advances
BulkBatchCollected ==
  /\ bulk.pc = "await"
  /\ LET batch == BatchAt(bulk.i, Len(bulk.urls))
     IN /\ \A pos \in batch : bulk.stage[pos] \in {"success", "error"}
        /\ bulk' = [bulk EXCEPT !.pc = "loop", !.i = @ + concurrency,
                      !.results = @ \o BatchEntries(bulk, batch, "success"),
                      !.errors = @ \o BatchEntries(bulk, batch, "error")]
  /\ UNCHANGED <<storeVars, gate, audit, scoring>>

\* the loop has ended: res.json with the counts
BulkResponds ==
  /\ bulk.pc = "loop"
  /\ bulk.i >= Len(bulk.urls)
  /\ bulk' = [bulk EXCEPT !.pc = "responded",
                !.response = [status |-> 200, totalUrls |-> Len(bulk.urls),
                              successCount |-> Len(bulk.results),
                              errorCount |-> Len(bulk.errors)]]
  /\ UNCHANGED <<storeVars, gate, audit, scoring>>

NextBulkRoute ==
  \/ \E n \in 0..MaxBulkUrls : PostBulkAnalysis(n)
  \/ BulkBatchStarts
  \/ \E pos \in 1..MaxBulkUrls, ok \in BOOLEAN : BulkAuditSettles(pos, ok)
  \/ \E pos \in 1..MaxBulkUrls, ok \in BOOLEAN : BulkRecordSettles(pos, ok)
  \/ BulkBatchCollected
  \/ BulkResponds

SpecBulkRoute == Init /\ [][NextBulkRoute]_vars

\* ---- the trend engine on recorded histories
\* overallScore of the audits of a history
TrendScores == {0, 50, 80}

\* days between two audits of a history, and since the last one
Gaps == {0, 1, 40}

Ages == {0, 5}

\* the report of the i-th of n audits of one URL: the first k score s1, the
\* others s2
ShapedReport(i, k, s1, s2, gap) ==
  [id |-> i,
   url |-> [scheme |-> "https", path |-> "p", slash |-> FALSE, frag |-> FALSE],
   overallScore |-> IF i <= k THEN s1 ELSE s2,
   accessibility |-> 40, mobile |-> 70, performance |-> 100,
   analysisDate |-> (i - 1) * gap]

\* what recordAuditInHistory has stored for these reports
ShapedHistory(storageImpl, n, k, s1, s2, gap) ==
  [i \in 1..n |->
     LET report == ShapedReport(i, k, s1, s2, gap)
     IN [(IF storageImpl = "MemStorage" THEN MemHistoryRecord(1, report)
          ELSE DbHistoryRecord(1, report))
           EXCEPT !.recordedAt = report.analysisDate]]

InitTrend ==
  /\ impl \in Impls
  /\ \E n \in 0..MaxHistory, k \in 0..MaxHistory, s1 \in TrendScores,
        s2 \in TrendScores, gap \in Gaps, age \in Ages :
       /\ k <= n
       /\ now = (IF n = 0 THEN 0 ELSE (n - 1) * gap) + age
       /\ auditReports = [i \in 1..n |-> ShapedReport(i, k, s1, s2, gap)]
       /\ performanceHistory = ShapedHistory(impl, n, k, s1, s2, gap)
       /\ historicalTracking =
            IF n = 0 THEN <<>>
            ELSE <<[url |-> canonicalizeUrl(ShapedReport(1, k, s1, s2, gap).url),
                    totalAudits |-> n, lastAuditDate |-> (n - 1) * gap,
                    isActive |-> TRUE, retentionDays |-> 365]>>
  /\ ticks = 0
  /\ faults = 0
  /\ cleanups = 0
  /\ reqs = <<>>
  /\ trendAnalyses = <<>>
  /\ lastTrendId = 0
  /\ jobs = <<>>
  /\ dbCleanup = CleanupIdle
  /\ bulk = BulkIdle
  /\ gate = GateIdle
  /\ audit = AuditIdle
  /\ scoring = ScoringIdle

\* generateTrendAnalysis(trackingId, timePeriod), run alone for one period
\* after the other in the order of onNewAuditRecorded: the history of the
\* date range is read, analysed, and the analysis is stored
GenerateTrendAnalysis(p) ==
  /\ Len(trendAnalyses) < Len(Periods)
  /\ p = Periods[Len(trendAnalyses) + 1]
  /\ \E short \in BOOLEAN :
     LET range == calculateDateRange(p, now)
         history == getPerformanceHistoryByDateRange(1, range.startDate,
                                                     range.endDate)
         analysis == AnalysisData(1, p, history, now, short)
     IN trendAnalyses' =
          MemCreateOrUpdateTrendAnalysis(trendAnalyses, lastTrendId, analysis)
  /\ lastTrendId' = lastTrendId + 1
  /\ UNCHANGED <<gate, audit, scoring, bulk>>
  /\ UNCHANGED <<impl, now, ticks, faults, cleanups, reqs, auditReports,
                 historicalTracking, performanceHistory, jobs, dbCleanup>>

NextTrend == \E p \in PeriodSet : GenerateTrendAnalysis(p)

SpecTrend == InitTrend /\ [][NextTrend]_vars

\* ---- the trend engine on histories that go up and down
ZigzagScores == {0, 10, 50, 90}

\* days since the last audit of the history
ZigzagAges == {0, 2, 5, 10, 20, 40}

\* the report of the i-th audit: the first k alternate between s1 and s2,
\* the others score s2, in every metric
ZigzagReport(i, k, s1, s2, gap) ==
  LET score == IF i <= k /\ i % 2 = 1 THEN s1 ELSE s2
  IN [id |-> i,
      url |-> [scheme |-> "https", path |-> "p", slash |-> FALSE,
               frag |-> FALSE],
      overallScore |-> score, accessibility |-> score, mobile |-> score,
      performance |-> score, analysisDate |-> (i - 1) * gap]

ZigzagHistory(storageImpl, n, k, s1, s2, gap) ==
  [i \in 1..n |->
     LET report == ZigzagReport(i, k, s1, s2, gap)
     IN [(IF storageImpl = "MemStorage" THEN MemHistoryRecord(1, report)
          ELSE DbHistoryRecord(1, report))
           EXCEPT !.recordedAt = report.analysisDate]]

InitZigzag ==
  /\ impl \in Impls
  /\ \E n \in 0..MaxHistory, k \in 0..MaxHistory, s1 \in ZigzagScores,
        s2 \in ZigzagScores, gap \in {0, 1}, age \in ZigzagAges :
       /\ k <= n
       /\ now = (IF n = 0 THEN 0 ELSE (n - 1) * gap) + age
       /\ auditReports = [i \in 1..n |-> ZigzagReport(i, k, s1, s2, gap)]
       /\ performanceHistory = ZigzagHistory(impl, n, k, s1, s2, gap)
       /\ historicalTracking =
            IF n = 0 THEN <<>>
            ELSE <<[url |-> canonicalizeUrl(ZigzagReport(1, k, s1, s2, gap).url),
                    totalAudits |-> n, lastAuditDate |-> (n - 1) * gap,
                    isActive |-> TRUE, retentionDays |-> 365]>>
  /\ ticks = 0
  /\ faults = 0
  /\ cleanups = 0
  /\ reqs = <<>>
  /\ trendAnalyses = <<>>
  /\ lastTrendId = 0
  /\ jobs = <<>>
  /\ dbCleanup = CleanupIdle
  /\ bulk = BulkIdle
  /\ gate = GateIdle
  /\ audit = AuditIdle
  /\ scoring = ScoringIdle

SpecZigzag == InitZigzag /\ [][NextTrend]_vars

\* ---- histories with outliers in the middle
\* overallScore of the first five and of the last five audits of a history
EdgeScores == {40, 50, 90}

\* overallScore of the audits in between
OutlierScores == {0, 100}

\* the report of the i-th of n audits: the first five score s1, the last five
\* s2, and of those in between the ones of the earlier half m1, the others m2
OutlierReport(i, n, s1, m1, m2, s2, gap) ==
  [id |-> i,
   url |-> [scheme |-> "https", path |-> "p", slash |-> FALSE, frag |-> FALSE],
   overallScore |-> IF i <= 5 THEN s1
                    ELSE IF i > n - 5 THEN s2
                    ELSE IF i <= FloorDiv(n, 2) THEN m1 ELSE m2,
   accessibility |-> 40, mobile |-> 70, performance |-> 100,
   analysisDate |-> (i - 1) * gap]

OutlierHistory(storageImpl, n, s1, m1, m2, s2, gap) ==
  [i \in 1..n |->
     LET report == OutlierReport(i, n, s1, m1, m2, s2, gap)
     IN [(IF storageImpl = "MemStorage" THEN MemHistoryRecord(1, report)
          ELSE DbHistoryRecord(1, report))
           EXCEPT !.recordedAt = report.analysisDate]]

InitOutlier ==
  /\ impl \in Impls
  /\ \E n \in 0..MaxHistory, s1 \in EdgeScores, s2 \in EdgeScores,
        m1 \in OutlierScores, m2 \in OutlierScores, gap \in {0, 1} :
       /\ now = IF n = 0 THEN 0 ELSE (n - 1) * gap
       /\ auditReports =
            [i \in 1..n |-> OutlierReport(i, n, s1, m1, m2, s2, gap)]
       /\ performanceHistory = OutlierHistory(impl, n, s1, m1, m2, s2, gap)
       /\ historicalTracking =
            IF n = 0 THEN <<>>
            ELSE <<[url |-> canonicalizeUrl(
                              OutlierReport(1, n, s1, m1, m2, s2, gap).url),
                    totalAudits |-> n, lastAuditDate |-> (n - 1) * gap,
                    isActive |-> TRUE, retentionDays |-> 365]>>
  /\ ticks = 0
  /\ faults = 0
  /\ cleanups = 0
  /\ reqs = <<>>
  /\ trendAnalyses = <<>>
  /\ lastTrendId = 0
  /\ jobs = <<>>
  /\ dbCleanup = CleanupIdle
  /\ bulk = BulkIdle
  /\ gate = GateIdle
  /\ audit = AuditIdle
  /\ scoring = ScoringIdle

SpecOutlier == InitOutlier /\ [][NextTrend]_vars

\* ------------------------------------------------------------ the Safety Gate
\* Text is a sequence of one-character strings.
Digits == <<"0", "1", "2", "3", "4", "5", "6", "7", "8", "9",
            "a", "b", "c", "d", "e", "f">>

DigitChar(d) == Digits[d + 1]

\* an octet in decimal, as inet_ntop writes it
DecText(n) ==
  IF n < 10 THEN <<DigitChar(n)>>
  ELSE IF n < 100 THEN <<DigitChar(n \div 10), DigitChar(n % 10)>>
  ELSE <<DigitChar(n \div 100), DigitChar((n \div 10) % 10), DigitChar(n % 10)>>

\* a 16-bit word in hexadecimal without leading zeros ("%x")
HexText(n) ==
  LET all == <<DigitChar(n \div 4096), DigitChar((n \div 256) % 16),
               DigitChar((n \div 16) % 16), DigitChar(n % 16)>>
      skip == IF n >= 4096 THEN 0 ELSE IF n >= 256 THEN 1
              ELSE IF n >= 16 THEN 2 ELSE 3
  IN SubSeq(all, skip + 1, 4)

\* the word with the four hexadecimal digits a b c d
Hextet(a, b, c, d) == ((a * 16 + b) * 16 + c) * 16 + d

\* the text of an IPv4 address, given by its four octets
Ntop4(o) ==
  DecText(o[1]) \o <<".">> \o DecText(o[2]) \o <<".">> \o DecText(o[3])
    \o <<".">> \o DecText(o[4])

RECURSIVE ZeroRun(_, _)
\* the number of zero words of w from position i on
ZeroRun(w, i) ==
  IF i > Len(w) \/ w[i] # 0 THEN 0 ELSE 1 + ZeroRun(w, i + 1)

\* the run of zero words that "::" stands for: the first of the longest,
\* two words at least
BestRun(w) ==
  LET longest == CHOOSE n \in 0..8 :
                   /\ \E i \in 1..8 : ZeroRun(w, i) = n
                   /\ \A i \in 1..8 : ZeroRun(w, i) <= n
      base == CHOOSE i \in 1..8 :
                /\ ZeroRun(w, i) = longest
                /\ \A k \in 1..(i - 1) : ZeroRun(w, k) < longest
  IN IF longest < 2 THEN [base |-> 0, len |-> 0]
     ELSE [base |-> base, len |-> longest]

RECURSIVE Ntop6From(_, _, _)
Ntop6From(w, best, i) ==
  IF i > 8
    THEN IF best.len > 0 /\ best.base + best.len = 9 THEN <<":">> ELSE <<>>
  ELSE IF best.len > 0 /\ i >= best.base /\ i < best.base + best.len
    THEN (IF i = best.base THEN <<":">> ELSE <<>>) \o Ntop6From(w, best, i + 1)
  ELSE (IF i # 1 THEN <<":">> ELSE <<>>) \o
       (IF /\ i = 7
           /\ best.base = 1
           /\ \/ best.len = 6
              \/ best.len = 7 /\ w[8] # 1
              \/ best.len = 5 /\ w[6] = 65535
          THEN Ntop4(<<w[7] \div 256, w[7] % 256, w[8] \div 256, w[8] % 256>>)
          ELSE HexText(w[i]) \o Ntop6From(w, best, i + 1))

\* the text of an IPv6 address, given by its eight words
Ntop6(w) == Ntop6From(w, BestRun(w), 1)

\* the address string dns.lookup hands over
AddressText(a) == IF a.family = 4 THEN Ntop4(a.value) ELSE Ntop6(a.value)

Includes(text, ch) == \E i \in 1..Len(text) : text[i] = ch

StartsWith(text, prefix) ==
  /\ Len(text) >= Len(prefix)
  /\ SubSeq(text, 1, Len(prefix)) = prefix

\* String.prototype.split on a one-character separator: the pieces between
\* the places of the separator
Split(text, sep) ==
  LET at == {i \in 1..Len(text) : text[i] = sep}
      n == Cardinality(at)
      cut(j) == IF j = 0 THEN 0
                ELSE IF j = n + 1 THEN Len(text) + 1
                ELSE CHOOSE i \in at : Cardinality({k \in at : k <= i}) = j
  IN [j \in 1..(n + 1) |-> SubSeq(text, cut(j - 1) + 1, cut(j) - 1)]

UpperLetters == <<"A", "B", "C", "D", "E", "F">>

\* String.prototype.toLowerCase, on the letters an address can hold
LowerChar(ch) ==
  IF \E i \in 1..Len(UpperLetters) : UpperLetters[i] = ch
    THEN Digits[10 + (CHOOSE i \in 1..Len(UpperLetters) : UpperLetters[i] = ch)]
    ELSE ch

ToLowerCase(text) == [i \in 1..Len(text) |-> LowerChar(text[i])]

RECURSIVE Trim(_)
Trim(text) ==
  IF text # <<>> /\ text[1] = " " THEN Trim(Tail(text))
  ELSE IF text # <<>> /\ text[Len(text)] = " "
    THEN Trim(SubSeq(text, 1, Len(text) - 1))
  ELSE text

DigitValue(ch) == CHOOSE d \in 0..9 : Digits[d + 1] = ch

IsDecimal(text) ==
  \A i \in 1..Len(text) : \E d \in 0..9 : Digits[d + 1] = text[i]

RECURSIVE DecimalValue(_)
DecimalValue(text) ==
  IF text = <<>> THEN 0
  ELSE 10 * DecimalValue(SubSeq(text, 1, Len(text) - 1))
         + DigitValue(text[Len(text)])

\* Number(part): NaN, which no comparison of isPrivateIP holds for, is Null
Number(text) == IF IsDecimal(text) THEN DecimalValue(text) ELSE Null

\* AuditService.isPrivateIP
isPrivateIP(ip) ==
  IF Includes(ip, ":")
    THEN LET normalized == Trim(ToLowerCase(ip))
             parts == SelectSeq(Split(normalized, ":"), LAMBDA q : Len(q) > 0)
             firstHextet == parts[1]
         IN IF normalized = <<":", ":", "1">> \/ normalized = <<":", ":">>
              THEN TRUE
            ELSE IF Len(parts) = 0 THEN TRUE
            ELSE IF \/ firstHextet = <<"f", "e", "8", "0">>
                    \/ StartsWith(normalized, <<"f", "e", "8", "0", ":">>)
              THEN TRUE
            ELSE IF \/ StartsWith(firstHextet, <<"f", "c">>)
                    \/ StartsWith(firstHextet, <<"f", "d">>)
              THEN TRUE
            ELSE StartsWith(firstHextet, <<"f", "f">>)
    ELSE LET split == Split(ip, ".")
             parts == [i \in 1..Len(split) |-> Number(split[i])]
         IN IF Len(parts) # 4 THEN FALSE
            ELSE \/ parts[1] = 127
                 \/ parts[1] = 10
                 \/ parts[1] = 172 /\ parts[2] >= 16 /\ parts[2] <= 31
                 \/ parts[1] = 192 /\ parts[2] = 168
                 \/ parts[1] = 169 /\ parts[2] = 254
                 \/ parts[1] = 0
                 \/ parts[1] >= 224 /\ parts[1] <= 239

Protocols == {"http:", "https:", "ftp:"}

LocalhostName == <<"l", "o", "c", "a", "l", "h", "o", "s", "t">>

ExampleName == <<"e", "x", "a", "m", "p", "l", "e", ".", "c", "o", "m">>

\* hosts written as IPv4 addresses
LiteralHosts ==
  { <<127, 0, 0, 1>>, <<10, 0, 0, 5>>, <<172, 16, 0, 1>>, <<172, 32, 0, 1>>,
    <<192, 168, 1, 1>>, <<169, 254, 169, 254>>, <<8, 8, 8, 8>>,
    <<0, 0, 0, 0>>, <<224, 0, 0, 1>> }

\* urlObj.hostname of the URLs, with the address of a host written as one
GateHosts ==
  { [hostname |-> LocalhostName, ip |-> <<>>],
    [hostname |-> ExampleName, ip |-> <<>>] }
    \cup { [hostname |-> Ntop4(o), ip |-> o] : o \in LiteralHosts }

GateUrls ==
  { [protocol |-> pr, hostname |-> h.hostname, ip |-> h.ip] :
      pr \in Protocols, h \in GateHosts }

\* the addresses a lookup may resolve to
V4Firsts == {0, 8, 10, 127, 169, 172, 192, 223, 224, 239, 240}

V4Seconds == {0, 16, 31, 32, 168, 254}

DnsV4 ==
  { [family |-> 4, value |-> <<a, b, 0, 1>>] : a \in V4Firsts, b \in V4Seconds }

V6Firsts ==
  { 0, Hextet(2, 0, 0, 1), Hextet(0, 0, 15, 12), Hextet(0, 0, 15, 15),
    Hextet(15, 11, 15, 15), Hextet(15, 12, 0, 0), Hextet(15, 13, 15, 15),
    Hextet(15, 14, 0, 0), Hextet(15, 14, 7, 15), Hextet(15, 14, 8, 0),
    Hextet(15, 14, 8, 1), Hextet(15, 14, 11, 15), Hextet(15, 14, 12, 0),
    Hextet(15, 15, 0, 0), Hextet(15, 15, 15, 15) }

DnsV6 ==
  { [family |-> 6, value |-> <<w1, 0, 0, 0, 0, w6, w7, w8>>] :
      w1 \in V6Firsts, w6 \in {0, Hextet(15, 15, 15, 15)},
      w7 \in {0, Hextet(0, 10, 0, 0), Hextet(15, 12, 0, 0)}, w8 \in {0, 1} }

NoAddress == [family |-> 0, value |-> <<>>]

\* how dnsLookup(hostname, { family: 0 }) may settle: a host written as an
\* address resolves to it, a name to any address, or the lookup fails
DnsAnswers(url) ==
  IF url.ip # <<>>
    THEN { [ok |-> TRUE, address |-> [family |-> 4, value |-> url.ip],
            message |-> ""] }
    ELSE { [ok |-> TRUE, address |-> a, message |-> ""] :
             a \in DnsV4 \cup DnsV6 }
         \cup { [ok |-> FALSE, address |-> NoAddress, message |-> m] :
                  m \in {"getaddrinfo ENOTFOUND", "getaddrinfo EAI_AGAIN"} }

\* /^(10\.|172\.(1[6-9]|2[0-9]|3[0-1])\.|192\.168\.|127\.|169\.254\.)/
PrivateHostnamePattern(hostname) ==
  \/ StartsWith(hostname, <<"1", "0", ".">>)
  \/ \E n \in 16..31 :
       StartsWith(hostname, <<"1", "7", "2", ".">> \o DecText(n) \o <<".">>)
  \/ StartsWith(hostname, <<"1", "9", "2", ".", "1", "6", "8", ".">>)
  \/ StartsWith(hostname, <<"1", "2", "7", ".">>)
  \/ StartsWith(hostname, <<"1", "6", "9", ".", "2", "5", "4", ".">>)

\* validateUrlSafety up to the lookup: the message of the error thrown, or "";
\* a text that is no URL (written with the protocol "") makes new URL throw
SyncMessage(url) ==
  LET hostname == ToLowerCase(url.hostname)
  IN IF url.protocol = ""
       THEN "Invalid URL"
     ELSE IF url.protocol \notin {"http:", "https:"}
       THEN "Only HTTP and HTTPS protocols are allowed"
     ELSE IF hostname \in {LocalhostName, Ntop4(<<127, 0, 0, 1>>),
                           <<":", ":", "1">>}
       THEN "Cannot audit localhost or loopback addresses"
     ELSE IF PrivateHostnamePattern(hostname)
       THEN "Cannot audit private or internal IP addresses"
     ELSE ""

\* a catch that lets every error of the try block pass
IncludesNothing(message) == FALSE

\* error.message.includes('Cannot audit')
IncludesCannotAudit(message) ==
  message \in {"Cannot audit localhost or loopback addresses",
               "Cannot audit private or internal IP addresses"}

\* the catch around the lookup: a "Cannot audit" error is thrown on, any
\* other error is logged and the URL is allowed
CatchLookupError(g, message) ==
  IF IncludesCannotAudit(message)
    THEN [g EXCEPT !.pc = "done", !.verdict = "rejected",
                   !.message = message]
    ELSE [g EXCEPT !.pc = "done", !.verdict = "allowed"]

NewGate(url) == [GateIdle EXCEPT !.pc = "validate", !.url = url]

\* validateUrlSafety(url), the statements before the lookup
ValidateUrlSafety ==
  /\ gate.pc = "validate"
  /\ gate' = IF SyncMessage(gate.url) # ""
               THEN [gate EXCEPT !.pc = "done", !.verdict = "rejected",
                                 !.message = SyncMessage(gate.url)]
               ELSE [gate EXCEPT !.pc = "lookup"]
  /\ UNCHANGED <<storeVars, audit, scoring, bulk>>

\* dnsLookup settles, and the try block and its catch run
DnsLookupSettles(answer) ==
  /\ gate.pc = "lookup"
  /\ answer \in DnsAnswers(gate.url)
  /\ gate' =
       IF answer.ok
         THEN LET g == [gate EXCEPT !.resolved = <<answer.address>>]
              IN IF isPrivateIP(AddressText(answer.address))
                   THEN CatchLookupError(g,
                          "Cannot audit private or internal IP addresses")
                   ELSE [g EXCEPT !.pc = "done", !.verdict = "allowed"]
         ELSE CatchLookupError([gate EXCEPT !.message = answer.message],
                               answer.message)
  /\ UNCHANGED <<storeVars, audit, scoring, bulk>>

AllDnsAnswers == UNION {DnsAnswers(u) : u \in GateUrls}

InitGate ==
  /\ impl \in Impls
  /\ now = 0
  /\ ticks = 0
  /\ faults = 0
  /\ cleanups = 0
  /\ reqs = <<>>
  /\ auditReports = <<>>
  /\ historicalTracking = <<>>
  /\ performanceHistory = <<>>
  /\ trendAnalyses = <<>>
  /\ lastTrendId = 0
  /\ jobs = <<>>
  /\ dbCleanup = CleanupIdle
  /\ bulk = BulkIdle
  /\ gate \in {NewGate(u) : u \in GateUrls}
  /\ audit = AuditIdle
  /\ scoring = ScoringIdle

NextGate ==
  \/ ValidateUrlSafety
  \/ \E answer \in AllDnsAnswers : DnsLookupSettles(answer)

SpecGate == InitGate /\ [][NextGate]_vars

\* ------------------------------------------------------------ the audit
OtherName == <<"o", "t", "h", "e", "r", ".", "o", "r", "g">>

\* the URLs audited: a public name, a scheme and a host the Gate refuses,
\* and a text that is no URL
AuditTargets ==
  { [protocol |-> "http:", hostname |-> ExampleName, ip |-> <<>>,
     path |-> ""],
    [protocol |-> "", hostname |-> <<>>, ip |-> <<>>, path |-> "not a url"],
    [protocol |-> "ftp:", hostname |-> ExampleName, ip |-> <<>>,
     path |-> ""],
    [protocol |-> "http:", hostname |-> Ntop4(<<10, 0, 0, 5>>),
     ip |-> <<10, 0, 0, 5>>, path |-> ""] }

\* the addresses names resolve to during an audit
AuditAddresses ==
  { [family |-> 4, value |-> <<8, 0, 0, 1>>],
    [family |-> 4, value |-> <<10, 0, 0, 1>>] }

\* how a lookup settles during an audit: the answers of DnsAnswers with the
\* addresses of AuditAddresses
AuditDnsAnswers(url) ==
  IF url.ip # <<>>
    THEN { [ok |-> TRUE, address |-> [family |-> 4, value |-> url.ip],
            message |-> ""] }
    ELSE { [ok |-> TRUE, address |-> a, message |-> ""] :
             a \in AuditAddresses }
         \cup { [ok |-> FALSE, address |-> NoAddress, message |-> m] :
                  m \in {"getaddrinfo ENOTFOUND", "getaddrinfo EAI_AGAIN"} }

\* the href attributes of a page: lead is what the href starts with; the
\* href with no host is "http://", which new URL refuses
Hrefs ==
  { [lead |-> "http", protocol |-> "http:", hostname |-> <<>>, ip |-> <<>>,
     path |-> ""] } \cup
  { [lead |-> "#", protocol |-> "", hostname |-> <<>>, ip |-> <<>>,
     path |-> "top"],
    [lead |-> "mailto:", protocol |-> "", hostname |-> <<>>, ip |-> <<>>,
     path |-> "a"],
    [lead |-> "/", protocol |-> "", hostname |-> <<>>, ip |-> <<>>,
     path |-> "about"],
    [lead |-> "//", protocol |-> "", hostname |-> OtherName, ip |-> <<>>,
     path |-> "x"],
    [lead |-> "http", protocol |-> "http:", hostname |-> ExampleName,
     ip |-> <<>>, path |-> "about"],
    [lead |-> "http", protocol |-> "http:", hostname |-> OtherName,
     ip |-> <<>>, path |-> "x"],
    [lead |-> "http", protocol |-> "http:", hostname |-> Ntop4(<<10, 0, 0, 5>>),
     ip |-> <<10, 0, 0, 5>>, path |-> "admin"],
    [lead |-> "rel", protocol |-> "", hostname |-> <<>>, ip |-> <<>>,
     path |-> "page"] }

Pages == UNION {[1..n -> Hrefs] : n \in 0..MaxAnchors}

\* how a probe may settle: the status of the response, or Null for an error
\* without a response
HeadStatuses == {200, 304, 404, 405, 501, Null}

GetStatuses == {200, 304, 500, Null}

\* maxLinksToCheck of checkLinks
maxLinksToCheck == 50

\* new URL(href, baseUrl), for a base with the path "/"
ResolveHref(href, base) ==
  IF href.lead = "http"
    THEN [protocol |-> href.protocol, hostname |-> href.hostname,
          ip |-> href.ip, path |-> href.path]
  ELSE IF href.lead = "//"
    THEN [protocol |-> base.protocol, hostname |-> href.hostname,
          ip |-> href.ip, path |-> href.path]
  ELSE [protocol |-> base.protocol, hostname |-> base.hostname,
        ip |-> base.ip, path |-> href.path]

\* URL.origin, for URLs on the default port
Origin(u) == <<u.protocol, u.hostname>>

\* the isInternal of checkLinks
IsInternalLink(href, base) ==
  IF href.lead \in {"/", "//"} THEN TRUE
  ELSE IF href.lead = "http" THEN Origin(href) = Origin(base)
  ELSE TRUE

\* links that are never checked
SkippedHref(href) == href.lead \in {"", "#", "mailto:", "tel:"}

\* new URL(href) throws inside the try block of the loop
Unparseable(href) == href.lead = "http" /\ href.hostname = <<>>

\* a loop that never finds a URL among those already checked
NeverChecked(absoluteUrl, checkedUrls) == FALSE

\* checkedUrls.has(absoluteUrl)
AlreadyChecked(absoluteUrl, checkedUrls) == absoluteUrl \in checkedUrls

\* a loop whose catch blocks throw the error on: checkLinks rejects and
\* auditWebsite with it
RethrowLinkError(a) == [a EXCEPT !.pc = "done", !.outcome = "failed"]

\* the catch blocks of the loop: continue with the next anchor
CatchLinkError(a) == [a EXCEPT !.pc = "links", !.i = @ + 1]

\* a fetchPage whose error does not carry the message of its cause
DropCause(message) ==
  [prefix |-> "Failed to fetch URL: ", cause |-> "Unknown error"]

\* the catch of fetchPage: `Failed to fetch URL: ${error.message}`
WrapFetchError(message) ==
  [prefix |-> "Failed to fetch URL: ", cause |-> message]

\* how axios.get of the root page may fail
RootErrors ==
  {"timeout of 10000ms exceeded", "Maximum number of redirects exceeded",
   "Request failed with status code 404", "connect ECONNREFUSED"}

\* the properties of the object auditWebsite returns
ReportFields ==
  {"overallScore", "metaTags", "accessibilityIssues", "accessibilityScoring",
   "seoScoring", "mobileAnalysis", "brokenLinks", "performanceMetrics",
   "recommendations", "statistics"}

\* the default validateStatus of axios: a response outside 2xx rejects the
\* request with an error that carries the response
ValidateStatus(status) == status >= 200 /\ status < 300

GateEvent(target, url, verdict) ==
  [kind |-> "gate", target |-> target, method |-> "", url |-> url,
   verdict |-> verdict, internal |-> FALSE, i |-> audit.i]

HttpEvent(target, method, url, internal) ==
  [kind |-> "http", target |-> target, method |-> method, url |-> url,
   verdict |-> "", internal |-> internal, i |-> audit.i]

\* a fetchPage that requests the page whatever the Gate said
ProceedAlways(verdict) == TRUE

\* fetchPage: axios.get is reached only when validateUrlSafety has not thrown
FetchMayProceed(verdict) == verdict = "allowed"

\* a checkLinks that validates no link
NeverGated(isInternal) == FALSE

\* checkLinks: if (!isInternal) await this.validateUrlSafety(absoluteUrl)
NeedsGate(isInternal) == ~isInternal

\* auditWebsite(url) is called: fetchPage calls validateUrlSafety
AuditWebsite(u) ==
  /\ audit.pc = "idle"
  /\ audit' = [AuditIdle EXCEPT !.pc = "rootGate", !.url = u]
  /\ gate' = NewGate(u)
  /\ UNCHANGED <<storeVars, scoring, bulk>>

\* fetchPage after validateUrlSafety: its error is wrapped and thrown, and
\* auditWebsite fails; otherwise axios.get(url) is sent
FetchPageAfterGate ==
  /\ audit.pc = "rootGate"
  /\ gate.pc = "done"
  /\ LET logged == Append(audit.log,
                          GateEvent("root", audit.url, gate.verdict))
     IN audit' =
          IF FetchMayProceed(gate.verdict)
            THEN [audit EXCEPT !.pc = "rootGet",
                    !.log = Append(logged,
                              HttpEvent("root", "GET", audit.url, FALSE))]
            ELSE [audit EXCEPT !.pc = "done", !.outcome = "failed",
                               !.log = logged,
                               !.error = WrapFetchError(gate.message)]
  /\ gate' = GateIdle
  /\ UNCHANGED <<storeVars, scoring, bulk>>

\* axios.get of the root page settles: an error fails the audit, a page is
\* parsed and checkLinks starts
RootResponse(ok, page, cause) ==
  /\ audit.pc = "rootGet"
  /\ audit' = IF ok
                THEN [audit EXCEPT !.pc = "links", !.anchors = page, !.i = 1]
                ELSE [audit EXCEPT !.pc = "done", !.outcome = "failed",
                                   !.error = WrapFetchError(cause)]
  /\ UNCHANGED <<storeVars, gate, scoring, bulk>>

\* one pass of the loop of checkLinks up to its first await: the anchor is
\* skipped, or classified, looked up in checkedUrls and counted; an external
\* link goes to the Gate, an internal one is probed with HEAD
CheckLink ==
  /\ audit.pc = "links"
  /\ audit.i <= Len(audit.anchors)
  /\ audit.checkedCount < maxLinksToCheck
  /\ LET href == audit.anchors[audit.i]
         absoluteUrl == ResolveHref(href, audit.url)
         isInternal == IsInternalLink(href, audit.url)
         counted == [audit EXCEPT !.absoluteUrl = absoluteUrl,
                       !.isInternal = isInternal,
                       !.checkedUrls = @ \cup {absoluteUrl},
                       !.checkedCount = @ + 1]
     IN IF SkippedHref(href)
          THEN /\ audit' = [audit EXCEPT !.i = @ + 1]
               /\ UNCHANGED gate
        ELSE IF Unparseable(href)
          THEN /\ audit' = CatchLinkError(audit)
               /\ UNCHANGED gate
        ELSE IF AlreadyChecked(absoluteUrl, audit.checkedUrls)
          THEN /\ audit' = [audit EXCEPT !.i = @ + 1]
               /\ UNCHANGED gate
        ELSE IF NeedsGate(isInternal)
          THEN /\ audit' = [counted EXCEPT !.pc = "linkGate"]
               /\ gate' = NewGate(absoluteUrl)
          ELSE /\ audit' = [counted EXCEPT !.pc = "head",
                              !.log = Append(@, HttpEvent("link", "HEAD",
                                                 absoluteUrl, isInternal))]
               /\ UNCHANGED gate
  /\ UNCHANGED <<storeVars, scoring, bulk>>

\* checkLinks after validateUrlSafety(absoluteUrl): a rejection is caught and
\* the loop continues, otherwise the link is probed with HEAD
LinkAfterGate ==
  /\ audit.pc = "linkGate"
  /\ gate.pc = "done"
  /\ LET logged == Append(audit.log,
                          GateEvent("link", audit.absoluteUrl, gate.verdict))
     IN audit' =
          IF gate.verdict = "rejected"
            THEN CatchLinkError([audit EXCEPT !.log = logged])
            ELSE [audit EXCEPT !.pc = "head",
                    !.log = Append(logged,
                              HttpEvent("link", "HEAD", audit.absoluteUrl,
                                        audit.isInternal))]
  /\ gate' = GateIdle
  /\ UNCHANGED <<storeVars, scoring, bulk>>

\* the body of the GET fallback, requested with responseType 'stream': the
\* stream of a response that resolved is destroyed at once, the one an error
\* carries is never touched, and an error without a response has none
StreamAfterGet(status) ==
  IF status = Null THEN "none"
  ELSE IF ValidateStatus(status) THEN "destroyed"
  ELSE "unread"

\* the probe has settled with the status of a response, or with Null for an
\* error without one: a response that resolved the request is recorded when
\* response.status >= 400, an error when it carries a response
RecordProbe(a, status) ==
  [a EXCEPT !.pc = "links", !.i = @ + 1,
            !.log = Append(@, [kind |-> "settled", url |-> a.absoluteUrl,
                               status |-> status, i |-> a.i,
                               method |-> IF a.pc = "get" THEN "GET"
                                          ELSE "HEAD",
                               body |-> IF a.pc = "get"
                                          THEN StreamAfterGet(status)
                                          ELSE "none"]),
            !.brokenLinks =
              IF /\ status # Null
                 /\ ValidateStatus(status) => status >= 400
                THEN Append(@, [url |-> a.absoluteUrl, status |-> status,
                                type |-> IF a.isInternal THEN "internal"
                                         ELSE "external"])
                ELSE @]

\* a GET fallback after every HEAD request that failed
FallbackOnAnyFailure(status) == status = Null \/ ~ValidateStatus(status)

\* the HEAD error carries a response whose status is 405 or 501
HeadNotSupported(status) == status = 405 \/ status = 501

\* axios.head settles: on 405 or 501 the link is requested again with GET
HeadSettles(status) ==
  /\ audit.pc = "head"
  /\ audit' =
       IF HeadNotSupported(status)
         THEN [audit EXCEPT !.pc = "get",
                 !.log = Append(Append(@,
                           [kind |-> "headFailed", url |-> audit.absoluteUrl,
                            status |-> status, i |-> audit.i]),
                           HttpEvent("link", "GET", audit.absoluteUrl,
                                     audit.isInternal))]
         ELSE RecordProbe(audit, status)
  /\ UNCHANGED <<storeVars, gate, scoring, bulk>>

\* axios.get of the link settles
GetSettles(status) ==
  /\ audit.pc = "get"
  /\ audit' = RecordProbe(audit, status)
  /\ UNCHANGED <<storeVars, gate, scoring, bulk>>

\* the loop of checkLinks ends and auditWebsite returns its report
CheckLinksDone ==
  /\ audit.pc = "links"
  /\ \/ audit.i > Len(audit.anchors)
     \/ audit.checkedCount >= maxLinksToCheck
  /\ audit' = [audit EXCEPT !.pc = "done", !.outcome = "report",
                             !.fields = ReportFields]
  /\ UNCHANGED <<storeVars, gate, scoring, bulk>>

InitAudit ==
  /\ impl \in Impls
  /\ now = 0
  /\ ticks = 0
  /\ faults = 0
  /\ cleanups = 0
  /\ reqs = <<>>
  /\ auditReports = <<>>
  /\ historicalTracking = <<>>
  /\ performanceHistory = <<>>
  /\ trendAnalyses = <<>>
  /\ lastTrendId = 0
  /\ jobs = <<>>
  /\ dbCleanup = CleanupIdle
  /\ bulk = BulkIdle
  /\ gate = GateIdle
  /\ audit = AuditIdle
  /\ scoring = ScoringIdle

NextAudit ==
  \/ \E u \in AuditTargets : AuditWebsite(u)
  \/ ValidateUrlSafety
  \/ /\ gate.pc = "lookup"
     /\ \E answer \in AuditDnsAnswers(gate.url) : DnsLookupSettles(answer)
  \/ FetchPageAfterGate
  \/ \E ok \in BOOLEAN, page \in Pages, cause \in RootErrors \cup {""} :
       /\ ok <=> cause = ""
       /\ ~ok => page = <<>>
       /\ RootResponse(ok, page, cause)
  \/ CheckLink
  \/ LinkAfterGate
  \/ \E status \in HeadStatuses : HeadSettles(status)
  \/ \E status \in GetStatuses : GetSettles(status)
  \/ CheckLinksDone

SpecAudit == InitAudit /\ [][NextAudit]_vars

\* every awaited call of an audit settles: the probes carry timeouts, the
\* lookup is answered or fails, and continuations are run by the event loop
SpecAuditLive == InitAudit /\ [][NextAudit]_vars /\ WF_vars(NextAudit)

\* ------------------------------------------------------ pages of many links
MaxPageLinks == 60

\* after how many anchors the hrefs of a page repeat
LinkPeriods == {1, 7, MaxPageLinks}

\* every how many anchors a page has a "#top" anchor; 0: never
LinkSkips == {0, 13}

\* a page of n anchors with root-relative hrefs /1, /2, ...
LinkPage(n, d, skip) ==
  [i \in 1..n |->
     IF skip > 0 /\ i % skip = 0
       THEN [lead |-> "#", protocol |-> "", hostname |-> <<>>, ip |-> <<>>,
             path |-> "top"]
       ELSE [lead |-> "/", protocol |-> "", hostname |-> <<>>, ip |-> <<>>,
             path |-> ToString(((i - 1) % d) + 1)]]

LinkPages ==
  {LinkPage(n, d, skip) : n \in 0..MaxPageLinks, d \in LinkPeriods,
                          skip \in LinkSkips}

\* the site answers the probe of the i-th anchor
HeadAnswer(i) == <<200, 404, 405, Null>>[(i % 4) + 1]

GetAnswer(i) == IF i % 8 = 2 THEN 500 ELSE 200

LinkTarget ==
  [protocol |-> "http:", hostname |-> ExampleName, ip |-> <<>>, path |-> ""]

NextLinks ==
  \/ AuditWebsite(LinkTarget)
  \/ ValidateUrlSafety
  \/ DnsLookupSettles([ok |-> TRUE, message |-> "",
                       address |-> [family |-> 4, value |-> <<8, 0, 0, 1>>]])
  \/ FetchPageAfterGate
  \/ \E page \in LinkPages : RootResponse(TRUE, page, "")
  \/ CheckLink
  \/ HeadSettles(HeadAnswer(audit.i))
  \/ GetSettles(GetAnswer(audit.i))
  \/ CheckLinksDone

SpecLinks == InitAudit /\ [][NextLinks]_vars

\* ------------------------------------------------------------ the scores
MaxCount == 40

\* a score that is not floored
Unclamped(score) == score

\* Math.max(0, score)
AtLeastZero(score) == Max(0, score)

\* analyzeMetaTagsScore; a tag that is absent has the length Null
analyzeMetaTagsScore(metaTags) ==
  LET title == IF metaTags.titleLength = Null THEN 25
               ELSE IF metaTags.titleLength > 60 THEN 10
               ELSE IF metaTags.titleLength < 30 THEN 10 ELSE 0
      description == IF metaTags.descriptionLength = Null THEN 20
                     ELSE IF metaTags.descriptionLength > 160 THEN 8
                     ELSE IF metaTags.descriptionLength < 120 THEN 5 ELSE 0
      social == (IF metaTags.ogTitle THEN 0 ELSE 10)
                  + (IF metaTags.ogDescription THEN 0 ELSE 10)
                  + (IF metaTags.ogImage THEN 0 ELSE 15)
                  + (IF metaTags.twitterCard THEN 0 ELSE 10)
  IN AtLeastZero(100 - title - description - social)

analyzeContentStructure(page) ==
  LET headings == (IF page.h1Count = 0 THEN 20
                   ELSE IF page.h1Count > 1 THEN 15 ELSE 0)
                    + (IF page.skippedLevel THEN 5 ELSE 0)
      semantic == (IF page.hasMain THEN 0 ELSE 10)
                    + (IF page.hasHeader THEN 0 ELSE 8)
                    + (IF page.hasNav THEN 0 ELSE 5)
                    + (IF page.hasFooter THEN 0 ELSE 5)
      words == IF page.wordCount < 300 THEN 15 ELSE 0
      imagesWithoutAlt == page.totalImages - page.imagesWithAlt
      images == IF imagesWithoutAlt > 0 THEN Min(20, imagesWithoutAlt * 5)
                ELSE 0
  IN AtLeastZero(100 - headings - semantic - words - images)

analyzeTechnicalSEO(page, brokenLinks, statistics) ==
  LET lowInternal ==
        \/ statistics.totalLinks = 0
        \/ 10 * statistics.internalLinks < 3 * statistics.totalLinks
  IN AtLeastZero(100
       - (IF page.canonical THEN 0 ELSE 10)
       - (IF page.robots THEN 0 ELSE 5)
       - (IF brokenLinks > 0 THEN Min(30, brokenLinks * 5) ELSE 0)
       - (IF page.sitemap THEN 0 ELSE 8)
       - (IF page.lang THEN 0 ELSE 10)
       - (IF page.schemaMarkup THEN 0 ELSE 15)
       - (IF lowInternal THEN 10 ELSE 0))

\* performanceMetrics of auditWebsite: firstPaint is loadTime * 0.6
analyzePerformanceScore(performanceMetrics) ==
  AtLeastZero(100
    - (IF performanceMetrics.loadTime > 3000 THEN 30
       ELSE IF performanceMetrics.loadTime > 2000 THEN 15 ELSE 0)
    - (IF 6 * performanceMetrics.loadTime > 20000 THEN 20 ELSE 0)
    - (IF performanceMetrics.contentSize > 1000000 THEN 15 ELSE 0)
    - (IF performanceMetrics.httpRequests > 50 THEN 10 ELSE 0))

\* the issues of a severity among those of the types
CountIssues(issues, types, severity) ==
  Len(SelectSeq(issues, LAMBDA q : q.type \in types /\ q.severity = severity))

\* the issue types of the four WCAG principles in
\* calculateAccessibilityScoring
Perceivable ==
  {"Missing Alt Text", "Images with Empty Alt Text",
   "Potential Color Contrast Issues"}

Operable == {"Interactive Elements Not Keyboard Accessible",
             "Missing Skip Links"}

Understandable == {"Missing Language Declaration", "Missing Page Title"}

Robust == {"Duplicate IDs", "Buttons Without Accessible Names",
           "Form Accessibility"}

IssueTypes ==
  Perceivable \cup Operable \cup Understandable \cup Robust
    \cup {"Heading Hierarchy", "Semantic HTML Structure"}

analyzeUserExperience(page, accessibilityIssues) ==
  AtLeastZero(100
    - (IF page.viewport = "none" THEN 25 ELSE 0)
    - (CountIssues(accessibilityIssues, IssueTypes, "critical") * 15
         + CountIssues(accessibilityIssues, IssueTypes, "warning") * 5)
    - (IF page.unlabeledInputs > 0 THEN 15 ELSE 0))

\* five equal weights
UnweightedSum(scores) ==
  20 * (scores.metaTags + scores.contentStructure + scores.technicalSEO
          + scores.performance + scores.userExperience)

\* weights of calculateAdvancedSEOScoring, in hundredths
WeightedSum(scores) ==
  30 * scores.metaTags + 25 * scores.contentStructure
    + 20 * scores.technicalSEO + 15 * scores.performance
    + 10 * scores.userExperience

calculateAdvancedSEOScoring(page, issues, brokenLinks, performanceMetrics, statistics, short) ==
  LET scores == [metaTags |-> analyzeMetaTagsScore(page),
                 contentStructure |-> analyzeContentStructure(page),
                 technicalSEO |->
                   analyzeTechnicalSEO(page, brokenLinks, statistics),
                 performance |-> analyzePerformanceScore(performanceMetrics),
                 userExperience |-> analyzeUserExperience(page, issues)]
  IN [overallScore |-> MathRound(WeightedSum(scores), 100, short),
      categoryScores |-> scores]

analyzeViewport(page) ==
  IF page.viewport = "none" THEN "error"
  ELSE IF page.viewport = "partial" THEN "warning" ELSE "good"

analyzeTouchTargets(page) ==
  LET totalElements == page.adequateSize + page.tooSmall
  IN IF totalElements = 0 THEN 50
     ELSE IF page.tooSmall > 0
       THEN RoundFrac(AtLeastZero(100 * totalElements - 100 * page.tooSmall),
                      totalElements)
     ELSE 100

\* fontSizes of analyzeTextReadability are given by their sum and number
analyzeTextReadability(page) ==
  LET small == IF page.smallTextElements > 0
                 THEN AtLeastZero(100 * page.textElements
                                    - 100 * page.smallTextElements)
                 ELSE 100 * page.textElements
      den == IF page.smallTextElements > 0 THEN page.textElements ELSE 1
      num == IF page.smallTextElements > 0 THEN small ELSE 100
      tooSmallOnAverage ==
        page.fontCount > 0 /\ page.fontSum < 14 * page.fontCount
  IN IF tooSmallOnAverage
       THEN RoundFrac(Max(num - 20 * den, 0), den)
       ELSE RoundFrac(num, den)

analyzeMobilePerformance(page, performanceMetrics) ==
  LET unoptimized ==
        page.totalImages > 0 /\ 2 * page.optimizedImages < page.totalImages
  IN AtLeastZero(100
       - (IF performanceMetrics.loadTime > 5000 THEN 30 ELSE 0)
       - (IF performanceMetrics.contentSize > 2000000 THEN 20 ELSE 0)
       - (IF unoptimized THEN 25 ELSE 0)
       - (IF ~page.hasWebP /\ page.totalImages > 0 THEN 10 ELSE 0))

analyzeMobileSEO(page) ==
  AtLeastZero(100
    - (IF page.viewport = "none" THEN 30 ELSE 0)
    - (IF page.viewport = "none" /\ ~page.responsiveHints THEN 25 ELSE 0)
    - (IF page.appleTouchIcon THEN 0 ELSE 10)
    - (IF ~page.mobileStructuredData /\ page.structuredData > 0
         THEN 15 ELSE 0))

analyzeMobileFriendliness(page, performanceMetrics) ==
  LET viewport == analyzeViewport(page)
      scores == [touchTargets |-> analyzeTouchTargets(page),
                 textReadability |-> analyzeTextReadability(page),
                 mobilePerformance |->
                   analyzeMobilePerformance(page, performanceMetrics),
                 mobileSEO |-> analyzeMobileSEO(page)]
  IN [overallScore |->
        RoundFrac(100 * (IF viewport = "good" THEN 20
                         ELSE IF viewport = "warning" THEN 10 ELSE 0)
                    + 25 * scores.touchTargets + 20 * scores.textReadability
                    + 20 * scores.mobilePerformance + 15 * scores.mobileSEO,
                  100),
      scores |-> scores]

calculateCategoryScore(issues, categoryTypes) ==
  AtLeastZero(100 - (CountIssues(issues, categoryTypes, "critical") * 20
                       + CountIssues(issues, categoryTypes, "warning") * 10))

calculateAccessibilityScoring(issues) ==
  [overallScore |->
     AtLeastZero(100 - CountIssues(issues, IssueTypes, "critical") * 15
                     - CountIssues(issues, IssueTypes, "warning") * 5),
   categoryScores |->
     [perceivable |-> calculateCategoryScore(issues, Perceivable),
      operable |-> calculateCategoryScore(issues, Operable),
      understandable |-> calculateCategoryScore(issues, Understandable),
      robust |-> calculateCategoryScore(issues, Robust)]]

\* the part of what auditWebsite returns that carries scores
ScoreReport(page, short) ==
  LET performanceMetrics ==
        [loadTime |-> page.loadTime, contentSize |-> page.contentSize,
         httpRequests |-> page.httpRequests]
      statistics == [totalLinks |-> page.totalLinks,
                     internalLinks |-> page.internalLinks]
      seoScoring ==
        calculateAdvancedSEOScoring(page, page.issues, page.brokenLinks,
                                    performanceMetrics, statistics, short)
  IN [overallScore |-> seoScoring.overallScore,
      seoScoring |-> seoScoring,
      accessibilityScoring |-> calculateAccessibilityScoring(page.issues),
      mobileAnalysis |-> analyzeMobileFriendliness(page, performanceMetrics)]

\* what a page gives the analyzers, by the analyzer that reads it
MetaInputs ==
  [titleLength : {Null, 10, 45, 70}, descriptionLength : {Null, 50, 140, 200},
   ogTitle : BOOLEAN, ogDescription : BOOLEAN, ogImage : BOOLEAN,
   twitterCard : BOOLEAN]

ContentInputs ==
  [h1Count : {0, 1, 2}, skippedLevel : BOOLEAN, hasMain : BOOLEAN,
   hasHeader : BOOLEAN, hasNav : BOOLEAN, hasFooter : BOOLEAN,
   wordCount : {10, 300}]

ImageInputs ==
  { [totalImages |-> t[1], imagesWithAlt |-> t[2], optimizedImages |-> t[3],
     hasWebP |-> t[4]] :
      t \in { <<0, 0, 0, FALSE>>, <<3, 3, 3, TRUE>>, <<3, 2, 1, FALSE>>,
              <<MaxCount, 0, 0, FALSE>>,
              <<MaxCount, MaxCount, MaxCount \div 2, TRUE>> } }

TechnicalInputs ==
  { [canonical |-> f[1], robots |-> f[2], sitemap |-> f[3], lang |-> f[4],
     schemaMarkup |-> f[5], brokenLinks |-> b, totalLinks |-> l[1],
     internalLinks |-> l[2]] :
      f \in [1..5 -> BOOLEAN], b \in {0, 1, MaxCount},
      l \in {<<0, 0>>, <<10, 2>>, <<10, 5>>} }

PerformanceInputs ==
  [loadTime : {500, 2500, 3500, 6000},
   contentSize : {1000, 1500000, 3000000}, httpRequests : {10, 60}]

\* c critical and w warning issues of one type
IssueList(type, c, w) ==
  [i \in 1..(c + w) |->
     [type |-> type, severity |-> IF i <= c THEN "critical" ELSE "warning"]]

IssueLists ==
  {IssueList(type, c, w) :
     type \in IssueTypes, c \in {0, 1, MaxCount}, w \in {0, 1, MaxCount}}
    \cup {<<[type |-> "Semantic HTML Structure", severity |-> "good"]>>}

UxInputs ==
  [viewport : {"none", "partial", "good"}, unlabeledInputs : {0, 2},
   issues : IssueLists]

MobileInputs ==
  { [adequateSize |-> touch[1], tooSmall |-> touch[2],
     textElements |-> text[1], smallTextElements |-> text[2],
     fontSum |-> text[3], fontCount |-> text[4], appleTouchIcon |-> icon,
     responsiveHints |-> hints, structuredData |-> data[1],
     mobileStructuredData |-> data[2]] :
      touch \in {<<0, 0>>, <<5, 0>>, <<3, 2>>, <<0, MaxCount>>},
      text \in { <<0, 0, 0, 0>>, <<10, 0, 160, 10>>, <<10, 4, 144, 10>>,
                 <<MaxCount, MaxCount, 10 * MaxCount, MaxCount>> },
      icon \in BOOLEAN, hints \in BOOLEAN,
      data \in {<<0, FALSE>>, <<1, FALSE>>, <<1, TRUE>>} }

\* a page with nothing to penalise, and one with everything
GoodPage ==
  [titleLength |-> 45, descriptionLength |-> 140, ogTitle |-> TRUE,
   ogDescription |-> TRUE, ogImage |-> TRUE, twitterCard |-> TRUE,
   h1Count |-> 1, skippedLevel |-> FALSE, hasMain |-> TRUE,
   hasHeader |-> TRUE, hasNav |-> TRUE, hasFooter |-> TRUE,
   wordCount |-> 300, totalImages |-> 3, imagesWithAlt |-> 3,
   optimizedImages |-> 3, hasWebP |-> TRUE, canonical |-> TRUE,
   robots |-> TRUE, sitemap |-> TRUE, lang |-> TRUE, schemaMarkup |-> TRUE,
   brokenLinks |-> 0, totalLinks |-> 10, internalLinks |-> 5,
   loadTime |-> 500, contentSize |-> 1000, httpRequests |-> 10,
   viewport |-> "good", unlabeledInputs |-> 0, issues |-> <<>>,
   adequateSize |-> 5, tooSmall |-> 0, textElements |-> 10,
   smallTextElements |-> 0, fontSum |-> 160, fontCount |-> 10,
   appleTouchIcon |-> TRUE, responsiveHints |-> TRUE, structuredData |-> 0,
   mobileStructuredData |-> FALSE]

BadPage ==
  [titleLength |-> Null, descriptionLength |-> Null, ogTitle |-> FALSE,
   ogDescription |-> FALSE, ogImage |-> FALSE, twitterCard |-> FALSE,
   h1Count |-> 0, skippedLevel |-> TRUE, hasMain |-> FALSE,
   hasHeader |-> FALSE, hasNav |-> FALSE, hasFooter |-> FALSE,
   wordCount |-> 10, totalImages |-> MaxCount, imagesWithAlt |-> 0,
   optimizedImages |-> 0, hasWebP |-> FALSE, canonical |-> FALSE,
   robots |-> FALSE, sitemap |-> FALSE, lang |-> FALSE,
   schemaMarkup |-> FALSE, brokenLinks |-> MaxCount, totalLinks |-> 0,
   internalLinks |-> 0, loadTime |-> 6000, contentSize |-> 3000000,
   httpRequests |-> 60, viewport |-> "none", unlabeledInputs |-> 2,
   issues |-> IssueList("Missing Alt Text", MaxCount, MaxCount),
   adequateSize |-> 0, tooSmall |-> MaxCount, textElements |-> MaxCount,
   smallTextElements |-> MaxCount, fontSum |-> 10 * MaxCount,
   fontCount |-> MaxCount, appleTouchIcon |-> FALSE,
   responsiveHints |-> FALSE, structuredData |-> 1,
   mobileStructuredData |-> FALSE]

\* a page whose weighted sum is the tie 62.5: meta tags 57, content
\* structure 60, technical SEO 27, performance and user experience 100
TiePage ==
  [titleLength |-> 70, descriptionLength |-> 200, ogTitle |-> FALSE,
   ogImage |-> FALSE, h1Count |-> 0, skippedLevel |-> TRUE, wordCount |-> 10,
   canonical |-> FALSE, robots |-> FALSE, sitemap |-> FALSE, lang |-> FALSE,
   brokenLinks |-> MaxCount, totalLinks |-> 0, internalLinks |-> 0]
    @@ GoodPage

\* the pages scored: what one analyzer reads varies, the rest of the page
\* is all good or all bad
ScorePages ==
  {TiePage} \cup
  {part @@ rest :
     part \in MetaInputs \cup ContentInputs \cup ImageInputs
                \cup TechnicalInputs \cup PerformanceInputs \cup UxInputs
                \cup MobileInputs,
     rest \in {GoodPage, BadPage}}

\* auditWebsite after checkLinks: the scores of the page are computed
ScoreAudit ==
  /\ scoring.pc = "page"
  /\ \E short \in BOOLEAN :
       scoring' = [pc |-> "scored", page |-> scoring.page,
                   report |-> ScoreReport(scoring.page, short)]
  /\ UNCHANGED <<storeVars, gate, audit, bulk>>

InitScore ==
  /\ impl \in Impls
  /\ now = 0
  /\ ticks = 0
  /\ faults = 0
  /\ cleanups = 0
  /\ reqs = <<>>
  /\ auditReports = <<>>
  /\ historicalTracking = <<>>
  /\ performanceHistory = <<>>
  /\ trendAnalyses = <<>>
  /\ lastTrendId = 0
  /\ jobs = <<>>
  /\ dbCleanup = CleanupIdle
  /\ bulk = BulkIdle
  /\ gate = GateIdle
  /\ audit = AuditIdle
  /\ scoring \in {[pc |-> "page", page |-> page] : page \in ScorePages}

NextScore == ScoreAudit

SpecScore == InitScore /\ [][NextScore]_vars

\* ------------------------------------------------------------ properties
SameKey(a, b) ==
  /\ a.historicalTrackingId = b.historicalTrackingId
  /\ a.timePeriod = b.timePeriod

AtMostOnePerKey ==
  \A i, k \in 1..Len(trendAnalyses) :
    SameKey(trendAnalyses[i], trendAnalyses[k]) => i = k

\* the job's current window is stored by this step
StoresWindow(j) ==
  /\ j <= Len(jobs)
  /\ Running(j)
  /\ jobs'[j].w = jobs[j].w + 1
  /\ jobs'[j].outcomes[jobs[j].w] = "stored"

\* the rows of a pair after the step
TrendRowsAfter(trackingId, p) ==
  {i \in 1..Len(trendAnalyses') :
     /\ trendAnalyses'[i].historicalTrackingId = trackingId
     /\ trendAnalyses'[i].timePeriod = p}

C1Step ==
  /\ AtMostOnePerKey'
  /\ \A j \in 1..Len(jobs) :
       StoresWindow(j) =>
         LET t == jobs[j].tid
             p == Periods[jobs[j].w]
         IN /\ \A i \in TrendRowsAfter(t, p) :
                 /\ trendAnalyses'[i].analysisDate = now
                 /\ \E short \in BOOLEAN :
                      trendAnalyses'[i].confidenceScore =
                        (IF jobs[j].analysis # <<>>
                           THEN jobs[j].analysis[1]
                           ELSE AnalysisData(t, p, jobs[j].hists[jobs[j].w],
                                             now, short)).confidenceScore
            /\ Len(trendAnalyses') = Len(trendAnalyses)
                 + (IF TrendRows(t, p) = {} /\ TrendRowsAfter(t, p) # {}
                      THEN 1 ELSE 0)

\* C1: under every interleaving of the trend jobs (two per audit, one per
\* record-history call) storage never holds two trend_analysis rows for one
\* (trackingId, timePeriod), and a window that is stored while a row for its
\* pair exists rewrites that row with the fresh analysis: no row is added.
C1_OneTrendPerKey == [][C1Step]_vars

\* two jobs have stored the 7d window of one tracking, and one row is held
C1_Witness ==
  /\ cleanups = 0
  /\ \E j1, j2 \in 1..Len(jobs) :
       /\ j1 # j2
       /\ jobs[j1].tid = jobs[j2].tid
       /\ jobs[j1].outcomes[1] = "stored"
       /\ jobs[j2].outcomes[1] = "stored"
       /\ Cardinality(TrendRows(jobs[j1].tid, "7d")) = 1

\* C2: totalAudits of every tracking equals the number of performance_history
\* records stored for it.
C2_CounterMatchesRecords ==
  \A t \in 1..Len(historicalTracking) :
    historicalTracking[t].totalAudits = Len(HistoryOf(t))

C5_WindowFailureIsolated ==
  \A j \in 1..Len(jobs) :
    /\ jobs[j].status # "rejected"
    /\ Len(jobs[j].outcomes) = 4
    /\ \A i \in 1..Len(Periods) :
         /\ i < jobs[j].w => jobs[j].outcomes[i] \in {"stored", "logged"}
         /\ i >= jobs[j].w => jobs[j].outcomes[i] = "pending"
    /\ jobs[j].status = "fulfilled" <=> jobs[j].w = Len(Periods) + 1

\* a job has ended whose first window failed and whose other three windows
\* were stored
C5_Witness ==
  \E j \in 1..Len(jobs) :
    /\ jobs[j].status = "fulfilled"
    /\ jobs[j].outcomes = <<"logged", "stored", "stored", "stored">>
    /\ \A i \in 2..4 : TrendRows(jobs[j].tid, Periods[i]) # {}

\* C6: a request that has recorded its audit can always take its next step
\* whatever state its trend jobs are in, and a request that has started a
\* trend job is never answered with an error: requests fail only on the audit
\* itself or on a storage statement of the recording.
C6_FireAndForget ==
  \A r \in 1..Len(reqs) :
    /\ reqs[r].pc = "insights" => ENABLED TriggerInsights(r)
    /\ reqs[r].pc = "routeAfter" => ENABLED RouteAfterRecord(r)
    /\ reqs[r].outcome = "error" => reqs[r].cause \in {"audit", "storage"}
    /\ JobsOf(r) # {} => reqs[r].outcome # "error"
    /\ (reqs[r].pc = "responded" /\ JobsOf(r) # {}) => reqs[r].outcome = "ok"

\* an audit request is answered with its report while a trend job it started
\* is still running and another one has had a window fail
C6_Witness ==
  \E r \in 1..Len(reqs) :
    /\ reqs[r].pc = "responded"
    /\ reqs[r].outcome = "ok"
    /\ \E j \in JobsOf(r) : Running(j)
    /\ \E j \in JobsOf(r) : \E i \in 1..4 : jobs[j].outcomes[i] = "logged"

\* the documented minimum of a period
C4Minimum(p) ==
  CASE p = "7d" -> 3 [] p = "30d" -> 5 [] p = "90d" -> 8 [] p = "1y" -> 12

\* the history generateTrendAnalysis reads for a period
WindowHistory(p) ==
  getPerformanceHistoryByDateRange(1, calculateDateRange(p, now).startDate,
                                   calculateDateRange(p, now).endDate)

NeedMoreData(a) ==
  \E i \in 1..Len(a.recommendations) :
    a.recommendations[i].title = "Increase Data Collection"

\* C4: the analysis stored for a period is the fixed InsufficientData result
\* (confidence 10, stable, weak, no improvements, no regressions) when the
\* period's date range holds fewer records than the period's minimum, and
\* otherwise an analysis computed from the records of the range.
C4_InsufficientBelowMinimum ==
  \A i \in 1..Len(trendAnalyses) :
    LET a == trendAnalyses[i]
        h == WindowHistory(a.timePeriod)
    IN IF Len(h) < C4Minimum(a.timePeriod)
         THEN /\ a.confidenceScore = 10
              /\ a.overallTrend = "stable"
              /\ a.trendStrength = "weak"
              /\ a.improvements = <<>>
              /\ a.regressions = <<>>
              /\ NeedMoreData(a)
         ELSE /\ ~NeedMoreData(a)
              /\ a.confidenceScore > 10
              /\ a.overallTrend = detectOverallTrend(h)

\* four records lie in the last 7 and 30 days: the 7d window is analysed as
\* improving, the 30d window is below its minimum of five
C4_Witness ==
  /\ Len(WindowHistory("7d")) = 4
  /\ Len(WindowHistory("30d")) = 4
  /\ \E i, k \in 1..Len(trendAnalyses) :
       /\ trendAnalyses[i].timePeriod = "7d"
       /\ trendAnalyses[i].overallTrend = "improving"
       /\ trendAnalyses[k].timePeriod = "30d"
       /\ trendAnalyses[k].confidenceScore = 10
       /\ trendAnalyses[k].improvements = <<>>

\* the ranges the Gate is documented to reject
DocumentedBlocked(a) ==
  IF a.family = 4
    THEN \/ a.value[1] = 127
         \/ a.value[1] = 10
         \/ a.value[1] = 172 /\ a.value[2] \in 16..31
         \/ a.value[1] = 192 /\ a.value[2] = 168
         \/ a.value[1] = 169 /\ a.value[2] = 254
         \/ a.value[1] = 0
         \/ a.value[1] \in 224..239
    ELSE \/ a.value = <<0, 0, 0, 0, 0, 0, 0, 1>>
         \/ a.value[1] \in Hextet(15, 14, 8, 0)..Hextet(15, 14, 11, 15)
         \/ a.value[1] \in Hextet(15, 12, 0, 0)..Hextet(15, 13, 15, 15)
         \/ a.value[1] \in Hextet(15, 15, 0, 0)..Hextet(15, 15, 15, 15)

\* C7: once the lookup has resolved, the Gate rejects exactly when the
\* resolved address lies in a documented range (IPv4 loopback, RFC1918,
\* link-local, this-network, multicast; IPv6 loopback, fe80::/10, fc00::/7,
\* ff00::/8) and allows every other address.
C7_PartitionAgreement ==
  (gate.pc = "done" /\ gate.resolved # <<>>) =>
    /\ isPrivateIP(AddressText(gate.resolved[1]))
         <=> DocumentedBlocked(gate.resolved[1])
    /\ gate.verdict = "rejected" <=> DocumentedBlocked(gate.resolved[1])

\* C8: a validation that reached the lookup allows the URL when the lookup
\* failed, and rejects it with the private-address error when the lookup
\* resolved to an address the Gate classifies as private; a URL is allowed
\* only after its lookup failed or resolved to an address not classified
\* private.
C8_FailOpenOnLookupOnly ==
  gate.pc = "done" =>
    /\ (gate.resolved = <<>> /\ SyncMessage(gate.url) = "")
         => gate.verdict = "allowed"
    /\ (gate.resolved # <<>> /\ isPrivateIP(AddressText(gate.resolved[1])))
         => /\ gate.verdict = "rejected"
            /\ gate.message = "Cannot audit private or internal IP addresses"
    /\ gate.verdict = "allowed"
         => /\ SyncMessage(gate.url) = ""
            /\ \/ gate.resolved = <<>>
               \/ ~isPrivateIP(AddressText(gate.resolved[1]))
    /\ (gate.resolved # <<>> /\ gate.resolved[1].family = 4
          /\ DocumentedBlocked(gate.resolved[1]))
         => gate.verdict = "rejected"

\* the name example.com resolved to 10.0.0.1 and the URL was rejected
C8_Witness ==
  /\ gate.pc = "done"
  /\ gate.url.hostname = ExampleName
  /\ gate.resolved = <<[family |-> 4, value |-> <<10, 0, 0, 1>>]>>
  /\ gate.verdict = "rejected"

RootRejected ==
  \E m \in 1..Len(audit.log) :
    /\ audit.log[m].kind = "gate"
    /\ audit.log[m].target = "root"
    /\ audit.log[m].verdict = "rejected"

\* C9: every request for the audited URL comes after a validateUrlSafety of
\* that URL that allowed it; when the Gate rejects the URL the audit has
\* failed with no request sent, no second validation and no report.
C9_GateBeforeRootFetch ==
  /\ \A k \in 1..Len(audit.log) :
       (audit.log[k].kind = "http" /\ audit.log[k].target = "root") =>
         \E m \in 1..(k - 1) :
           /\ audit.log[m].kind = "gate"
           /\ audit.log[m].url = audit.url
           /\ audit.log[m].verdict = "allowed"
  /\ (audit.pc = "rootGate" /\ gate.pc = "done" /\ gate.verdict = "rejected")
       => audit.log = <<>>
  /\ RootRejected =>
       /\ audit.log = <<GateEvent("root", audit.url, "rejected")>>
       /\ audit.pc = "done"
       /\ audit.outcome = "failed"
       /\ audit.brokenLinks = <<>>
       /\ gate = GateIdle

\* the audited name resolved to a private address and the audit has failed
\* with nothing requested
C9_Witness ==
  /\ RootRejected
  /\ audit.url.hostname = ExampleName
  /\ audit.url.protocol = "http:"
  /\ audit.outcome = "failed"

\* C10: a probe of a link classified as external comes after a
\* validateUrlSafety of its URL that allowed it; a link the Gate rejects is
\* never requested and never recorded as broken, and the loop has moved on
\* to the next anchor without failing the audit.
C10_ExternalLinksGated ==
  /\ \A k \in 1..Len(audit.log) :
       (/\ audit.log[k].kind = "http"
        /\ audit.log[k].target = "link"
        /\ ~audit.log[k].internal) =>
         \E m \in 1..(k - 1) :
           /\ audit.log[m].kind = "gate"
           /\ audit.log[m].url = audit.log[k].url
           /\ audit.log[m].verdict = "allowed"
  /\ \A m \in 1..Len(audit.log) :
       (/\ audit.log[m].kind = "gate"
        /\ audit.log[m].target = "link"
        /\ audit.log[m].verdict = "rejected") =>
         /\ \A k \in 1..Len(audit.log) :
              audit.log[k].kind = "http" => audit.log[k].url # audit.log[m].url
         /\ \A b \in 1..Len(audit.brokenLinks) :
              audit.brokenLinks[b].url # audit.log[m].url
         /\ audit.i > audit.log[m].i
         /\ audit.outcome # "failed"
  /\ \A k \in 1..Len(audit.log) :
       (audit.log[k].kind = "gate" /\ audit.log[k].target = "link") =>
         ~IsInternalLink(audit.anchors[audit.log[k].i], audit.url)

\* the Gate rejected the first link of a page and the second link was probed
C10_Witness ==
  \E m, k \in 1..Len(audit.log) :
    /\ audit.log[m].kind = "gate"
    /\ audit.log[m].target = "link"
    /\ audit.log[m].verdict = "rejected"
    /\ audit.log[k].kind = "http"
    /\ audit.log[k].target = "link"
    /\ audit.log[k].i > audit.log[m].i

\* the link probes of the log that were sent without a validateUrlSafety
UngatedProbes ==
  {k \in 1..Len(audit.log) :
     /\ audit.log[k].kind = "http"
     /\ audit.log[k].target = "link"
     /\ audit.log[k].internal}

\* C11: every link that checkLinks probes without consulting the Safety
\* Gate, the links it classifies as internal, has the origin of the audited
\* URL.
C11_UngatedLinksShareOrigin ==
  \A k \in UngatedProbes : Origin(audit.log[k].url) = Origin(audit.url)

\* the URLs checkLinks has sent a HEAD request to
ProbedUrls ==
  {audit.log[k].url : k \in {m \in 1..Len(audit.log) :
                               /\ audit.log[m].kind = "http"
                               /\ audit.log[m].target = "link"}}

\* C12: checkLinks probes at most 50 distinct absolute URLs, probes an
\* absolute URL that several anchors carry once, and brokenLinks holds no
\* two entries with the same url.
C12_LinkCapAndDedup ==
  /\ Cardinality(ProbedUrls) <= 50
  /\ audit.checkedCount <= 50
  /\ Cardinality(audit.checkedUrls) = audit.checkedCount
  /\ \A k, m \in 1..Len(audit.log) :
       (/\ audit.log[k].kind = "http" /\ audit.log[k].target = "link"
        /\ audit.log[m].kind = "http" /\ audit.log[m].target = "link"
        /\ audit.log[k].method = audit.log[m].method
        /\ audit.log[k].url = audit.log[m].url) => k = m
  /\ \A a, b \in 1..Len(audit.brokenLinks) :
       audit.brokenLinks[a].url = audit.brokenLinks[b].url => a = b

\* a page of 60 distinct links was audited: 50 were probed, the loop stopped
\* before the 51st anchor and the report was returned
C12_Witness ==
  /\ audit.anchors = LinkPage(60, 60, 0)
  /\ audit.outcome = "report"
  /\ Cardinality(ProbedUrls) = 50
  /\ audit.i = 51

\* the probes of the log that have settled, with their final status
SettledProbes ==
  {k \in 1..Len(audit.log) : audit.log[k].kind = "settled"}

\* C13: a probed link is in brokenLinks exactly when a status of 400 or
\* above was obtained for it, as the status of the response or of the
\* error; a probe that errors without a status, or answers below 400, is
\* not recorded.
C13_BrokenIffStatusAtLeast400 ==
  /\ \A k \in SettledProbes :
       (\E b \in 1..Len(audit.brokenLinks) :
          audit.brokenLinks[b].url = audit.log[k].url)
         <=> (audit.log[k].status # Null /\ audit.log[k].status >= 400)
  /\ \A b \in 1..Len(audit.brokenLinks) :
       /\ audit.brokenLinks[b].status >= 400
       /\ \E k \in SettledProbes :
            /\ audit.log[k].url = audit.brokenLinks[b].url
            /\ audit.log[k].status = audit.brokenLinks[b].status

\* the anchors checkLinks has to check: not skipped, parseable, and not the
\* URL of an earlier such anchor
Candidate(idx) ==
  LET href == audit.anchors[idx]
  IN /\ ~SkippedHref(href)
     /\ ~Unparseable(href)
     /\ \A e \in 1..(idx - 1) :
          (~SkippedHref(audit.anchors[e]) /\ ~Unparseable(audit.anchors[e]))
            => ResolveHref(audit.anchors[e], audit.url)
                 # ResolveHref(href, audit.url)

Processed(idx) == \E k \in 1..Len(audit.log) : audit.log[k].i = idx

C14LinksNeverAbort ==
  /\ audit.outcome = "failed" => audit.i = 0 /\ audit.anchors = <<>>
  /\ audit.outcome = "report" =>
       /\ audit.checkedCount < maxLinksToCheck =>
            \A idx \in 1..Len(audit.anchors) : Candidate(idx) => Processed(idx)
       /\ \A b \in 1..Len(audit.brokenLinks) :
            audit.brokenLinks[b].status # Null

\* C14: no outcome of a single link aborts the audit: once the page is
\* fetched auditWebsite never fails, checkLinks returns its list and the
\* report follows, and every candidate link within the cap has been
\* processed by then.
C14_LinkFailureNeverAborts ==
  /\ []C14LinksNeverAbort
  /\ (audit.pc = "links") ~> (audit.outcome = "report")

\* a report was returned for a page whose first link the Gate rejected and
\* whose second link failed without a status
C14_Witness ==
  /\ audit.outcome = "report"
  /\ \E m, k \in 1..Len(audit.log) :
       /\ audit.log[m].kind = "gate"
       /\ audit.log[m].target = "link"
       /\ audit.log[m].verdict = "rejected"
       /\ audit.log[m].i = 1
       /\ audit.log[k].kind = "settled"
       /\ audit.log[k].status = Null
       /\ audit.log[k].i = 2

\* the category of a failure, read from the message of its cause
ErrorCategory(cause) ==
  IF cause = "Invalid URL" THEN "ValidationError"
  ELSE IF cause \in {"Only HTTP and HTTPS protocols are allowed",
                     "Cannot audit localhost or loopback addresses",
                     "Cannot audit private or internal IP addresses"}
    THEN "UnsafeTargetError"
  ELSE IF cause \in RootErrors THEN "FetchError"
  ELSE "none"

RootRequests ==
  {k \in 1..Len(audit.log) :
     audit.log[k].kind = "http" /\ audit.log[k].target = "root"}

AllScores(report) ==
  {report.overallScore, report.seoScoring.overallScore,
   report.accessibilityScoring.overallScore,
   report.mobileAnalysis.overallScore}
    \cup {report.seoScoring.categoryScores[f] :
            f \in DOMAIN report.seoScoring.categoryScores}
    \cup {report.accessibilityScoring.categoryScores[f] :
            f \in DOMAIN report.accessibilityScoring.categoryScores}
    \cup {report.mobileAnalysis.scores[f] :
            f \in DOMAIN report.mobileAnalysis.scores}

PeriodHistory(p) ==
  LET range == calculateDateRange(p, now)
  IN getPerformanceHistoryByDateRange(1, range.startDate, range.endDate)

\* the stored analyses that were computed from enough records
Analyzed ==
  {i \in 1..Len(trendAnalyses) :
     Len(PeriodHistory(trendAnalyses[i].timePeriod))
       >= minimumDataPoints(trendAnalyses[i].timePeriod)}

\* later-half average minus earlier-half average of the overall score,
\* as <<numerator, denominator>>
HalvesDelta(history) ==
  LET sortedHistory == SortAsc(history)
      n == Len(sortedHistory)
      overall == [i \in 1..n |-> MetricOf(sortedHistory[i], "overall")]
      later == SeqSum([i \in 1..n |->
                 IF i \in RecentHalf(n) THEN overall[i] ELSE 0])
      earlier == SeqSum([i \in 1..n |->
                   IF i \in EarlierHalf(n) THEN overall[i] ELSE 0])
  IN <<later * Cardinality(EarlierHalf(n))
         - earlier * Cardinality(RecentHalf(n)),
       Cardinality(EarlierHalf(n)) * Cardinality(RecentHalf(n))>>

\* C17: the overallTrend of an analyzed history is improving when the
\* later-half average exceeds the earlier-half average by 5 or more,
\* declining when it is lower by 5 or more, stable otherwise, and every
\* record of the period belongs to one of the two halves.
C17_TrendFromHalves ==
  \A i \in Analyzed :
    LET history == PeriodHistory(trendAnalyses[i].timePeriod)
        n == Len(history)
        delta == HalvesDelta(history)
    IN /\ trendAnalyses[i].overallTrend =
            (IF delta[1] >= 5 * delta[2] THEN "improving"
             ELSE IF delta[1] <= (0 - 5) * delta[2] THEN "declining"
             ELSE "stable")
       /\ EarlierHalf(n) \cup RecentHalf(n) = 1..n

\* the part of C17 about the classification alone
TrendFromHalvesOnly ==
  \A i \in Analyzed :
    LET delta == HalvesDelta(PeriodHistory(trendAnalyses[i].timePeriod))
    IN trendAnalyses[i].overallTrend =
         (IF delta[1] >= 5 * delta[2] THEN "improving"
          ELSE IF delta[1] <= (0 - 5) * delta[2] THEN "declining"
          ELSE "stable")

\* the mean of a metric over the records at the given positions of the
\* history in time order that carry the metric: <<sum, count>>
MeanAt(history, positions, m) ==
  LET sortedHistory == SortAsc(history)
      with == {i \in positions : MetricOf(sortedHistory[i], m) # Null}
  IN <<SeqSum([i \in 1..Len(sortedHistory) |->
                 IF i \in with THEN MetricOf(sortedHistory[i], m) ELSE 0]),
       Cardinality(with)>>

Earliest5(n) == 1..Min(5, n)

MostRecent5(n) == Max(1, n - 4)..n

\* an entry of the metric in a list of significant changes
EntriesOf(changes, m) ==
  {k \in 1..Len(changes) : changes[k].category = m}

ChangeAtThresholdListed ==
  \E i \in Analyzed :
    LET row == trendAnalyses[i]
        history == PeriodHistory(row.timePeriod)
        recent == MeanAt(history, MostRecent5(Len(history)), "overall")
        earliest == MeanAt(history, Earliest5(Len(history)), "overall")
    IN /\ row.timePeriod = "90d"
       /\ recent[1] * earliest[2] - earliest[1] * recent[2]
            = 10 * recent[2] * earliest[2]
       /\ EntriesOf(row.improvements, "overall") # {}

PriorityRank(priority) ==
  CASE priority = "critical" -> 4 [] priority = "high" -> 3
    [] priority = "medium" -> 2 [] priority = "low" -> 1

\* what generateRecommendations derived for a stored analysis, before the cap
DerivedFor(row) ==
  DerivedRecommendations(PeriodHistory(row.timePeriod), row.improvements,
                         row.regressions)

\* C19: the recommendations of an analysis are at most 5, and no
\* recommendation that was derived and dropped has a higher priority
\* (critical > high > medium > low) than one that was kept.
C19_TopFiveByPriority ==
  \A i \in Analyzed :
    LET row == trendAnalyses[i]
        kept == Range(row.recommendations)
        dropped == Range(DerivedFor(row)) \ kept
    IN /\ Len(row.recommendations) <= 5
       /\ \A d \in dropped, k \in kept :
            PriorityRank(d.priority) <= PriorityRank(k.priority)

\* the cap alone
AtMostFiveRecommendations ==
  \A i \in 1..Len(trendAnalyses) : Len(trendAnalyses[i].recommendations) <= 5

\* more than five recommendations were derived for a stored analysis
MoreThanFiveDerived ==
  \E i \in Analyzed : Len(DerivedFor(trendAnalyses[i])) > 5

\* a step keeps every record of performance_history as it is and where it
\* is, and adds at most one
HistoryKept ==
  /\ Len(performanceHistory') >= Len(performanceHistory)
  /\ Len(performanceHistory') <= Len(performanceHistory) + 1
  /\ SubSeq(performanceHistory', 1, Len(performanceHistory))
       = performanceHistory

\* no audit report id occurs in two records of the series of a tracking
OneRecordPerReport ==
  \A i, j \in 1..Len(performanceHistory) :
    ( /\ performanceHistory[i].historicalTrackingId
           = performanceHistory[j].historicalTrackingId
      /\ performanceHistory[i].auditReportId
           = performanceHistory[j].auditReportId )
      => i = j

C20Step == HistoryKept /\ OneRecordPerReport'

\* C20: the PerformanceHistory series of a tracking is append-only with one
\* record per audit: a step adds at most one record, no step removes or
\* alters a record appended before, and no audit report id occurs in more
\* than one record of the series.
C20_AppendOnlyOnePerAudit == [][C20Step]_vars

\* the append-only part of C20
HistoryAppendOnly == [][HistoryKept]_vars

\* the trend_analysis rows of the other (trackingId, timePeriod) pairs
RowsOfOthers(rows, trackingId, p) ==
  {row \in Range(rows) :
     ~(row.historicalTrackingId = trackingId /\ row.timePeriod = p)}

\* a step of the engine: an onNewAuditRecorded call starts, or one of its
\* generateTrendAnalysis calls moves on
C21Step ==
  jobs' # jobs =>
    /\ performanceHistory' = performanceHistory
    /\ historicalTracking' = historicalTracking
    /\ auditReports' = auditReports
    /\ Len(jobs') > Len(jobs) => trendAnalyses' = trendAnalyses
    /\ \A j \in 1..Len(jobs) :
         jobs'[j] # jobs[j] =>
           /\ jobs[j].w \in 1..Len(Periods)
           /\ RowsOfOthers(trendAnalyses', jobs[j].tid, Periods[jobs[j].w])
                = RowsOfOthers(trendAnalyses, jobs[j].tid, Periods[jobs[j].w])

\* C21: generateTrendAnalysis and onNewAuditRecorded leave the stored
\* PerformanceHistory records as they are (same records, same values, same
\* order) and the HistoricalTracking records untouched; their only write is
\* the TrendAnalysis of the (trackingId, timePeriod) pair being analysed.
C21_EngineOnlyWritesItsAnalysis == [][C21Step]_vars

\* an onNewAuditRecorded call has stored its four analyses from a history of
\* two records that were appended at different times
C21_Witness ==
  /\ Len(performanceHistory) = 2
  /\ performanceHistory[1].recordedAt < performanceHistory[2].recordedAt
  /\ Len(trendAnalyses) = Len(Periods)
  /\ \E j \in 1..Len(jobs) :
       /\ jobs[j].status = "fulfilled"
       /\ \A w \in 1..Len(Periods) : jobs[j].outcomes[w] = "stored"
       /\ jobs[j].req = 2

\* the days between the latest record of a history and now
DaysSinceLatest(history) ==
  now - (CHOOSE d \in {history[i].recordedAt : i \in 1..Len(history)} :
           \A i \in 1..Len(history) : history[i].recordedAt <= d)

\* the days between the earliest and the latest record of a history
ActualSpan(history) ==
  LET dates == {history[i].recordedAt : i \in 1..Len(history)}
  IN (CHOOSE d \in dates : \A e \in dates : e <= d)
       - (CHOOSE d \in dates : \A e \in dates : d <= e)

\* the score fields of a history that hold a value, among its five per record
NonNullFields(history) ==
  Cardinality({<<i, m>> \in (1..Len(history)) \X Range(Metrics) :
                 MetricOf(history[i], m) # Null})

\* C22: the confidenceScore of an analyzed history is 0.30 dataQuantity
\* + 0.25 dataConsistency + 0.25 timeSpanCoverage + 0.20 freshness rounded
\* to an integer (no further from the sum than one half) within 0..100,
\* with dataQuantity
\* = min(100, 100 n / (2 x period minimum)), dataConsistency the percentage
\* of non-null score fields, timeSpanCoverage = min(100, 100 x actual span
\* / expected span), freshness 100/80/60/40/20/10 for a latest record at
\* most 1/3/7/14/30 days old or older.
C22_ConfidenceScore ==
  \A i \in Analyzed :
    LET row == trendAnalyses[i]
        p == row.timePeriod
        history == PeriodHistory(p)
        n == Len(history)
        minimum == CASE p = "7d" -> 3 [] p = "30d" -> 5 [] p = "90d" -> 8
                     [] p = "1y" -> 12
        expected == CASE p = "7d" -> 7 [] p = "30d" -> 30 [] p = "90d" -> 90
                      [] p = "1y" -> 365
        age == DaysSinceLatest(history)
        freshness == IF age <= 1 THEN 100 ELSE IF age <= 3 THEN 80
                     ELSE IF age <= 7 THEN 60 ELSE IF age <= 14 THEN 40
                     ELSE IF age <= 30 THEN 20 ELSE 10
        \* every term over the common denominator minimum * n * expected
        den == minimum * n * expected
        quantity == Min(100 * den, 50 * n * n * expected)
        consistency == 20 * NonNullFields(history) * minimum * expected
        coverage == Min(100 * den, 100 * ActualSpan(history) * minimum * n)
        \* 100 x the weighted sum x den
        sum == 30 * quantity + 25 * consistency + 25 * coverage
                 + 20 * freshness * den
        score == row.confidenceScore
    IN /\ score \in 0..100
       /\ 2 * 100 * den * score - 100 * den <= 2 * sum
       /\ 2 * sum <= 2 * 100 * den * score + 100 * den

\* an analysis of a history with null score fields whose latest record is
\* 20 days old is stored with a confidence strictly inside 0..100
C22_Witness ==
  \E i \in Analyzed :
    LET history == PeriodHistory(trendAnalyses[i].timePeriod)
    IN /\ DaysSinceLatest(history) = 20
       /\ NonNullFields(history) < 5 * Len(history)
       /\ ActualSpan(history) > 0
       /\ trendAnalyses[i].confidenceScore \in 1..99

\* C23: the SEO overall score is the weighted sum 0.30 MetaTags + 0.25
\* ContentStructure + 0.20 TechnicalSEO + 0.15 Performance + 0.10
\* UserExperience of the five floored sub-scores rounded to an integer (no
\* further from the sum than one half), and the overallScore of the audit
\* result equals it.
C23_SeoOverallIsWeightedSum ==
  scoring.pc = "scored" =>
    LET seo == scoring.report.seoScoring
        sub == seo.categoryScores
        sum == 30 * sub.metaTags + 25 * sub.contentStructure
                 + 20 * sub.technicalSEO + 15 * sub.performance
                 + 10 * sub.userExperience
    IN /\ \A f \in DOMAIN sub : sub[f] >= 0
       /\ 2 * 100 * seo.overallScore - 100 <= 2 * sum
       /\ 2 * sum <= 2 * 100 * seo.overallScore + 100
       /\ scoring.report.overallScore = seo.overallScore

\* a page with unequal sub-scores, one of them floored at 0, was scored with
\* an overall score strictly between the lowest and the highest sub-score
C23_Witness ==
  /\ scoring.pc = "scored"
  /\ scoring.report.seoScoring.categoryScores.userExperience = 0
  /\ scoring.report.seoScoring.categoryScores.metaTags = 100
  /\ scoring.report.overallScore = scoring.report.seoScoring.overallScore
  /\ scoring.report.overallScore \in 1..99

\* the tie page was scored 62, below the 63 of rounding half up
TieRoundedDown ==
  /\ scoring.pc = "scored"
  /\ scoring.page = TiePage
  /\ scoring.report.seoScoring.categoryScores =
       [metaTags |-> 57, contentStructure |-> 60, technicalSEO |-> 27,
        performance |-> 100, userExperience |-> 100]
  /\ scoring.report.overallScore = 62

\* the overall-score deltas between records that follow each other in time
ConsecutiveDeltas(history) ==
  LET sortedHistory == SortAsc(history)
  IN [k \in 1..(Len(history) - 1) |->
        MetricOf(sortedHistory[k + 1], "overall")
          - MetricOf(sortedHistory[k], "overall")]

\* the sum of the absolute values of the deltas
TotalMagnitude(deltas) ==
  SeqSum([k \in 1..Len(deltas) |-> IF deltas[k] < 0 THEN 0 - deltas[k]
                                   ELSE deltas[k]])

\* the trendStrength of the claim for a trend that is not stable, over
\* Len(deltas) > 0 deltas: strength = (consistency + magnitude) / 2
ClaimedStrength(trend, deltas) ==
  LET d == Len(deltas)
      matching == Cardinality({k \in 1..d :
                     IF trend = "improving" THEN deltas[k] > 0
                     ELSE deltas[k] < 0})
      \* d x consistency and d x magnitude
      consistency == 100 * matching
      magnitude == IF 5 * TotalMagnitude(deltas) > 100 * d THEN 100 * d
                   ELSE 5 * TotalMagnitude(deltas)
  IN IF consistency + magnitude >= 2 * 75 * d THEN "strong"
     ELSE IF consistency + magnitude >= 2 * 50 * d THEN "moderate"
     ELSE "weak"

\* C24: the trendStrength of an analyzed history is weak whenever
\* overallTrend is stable; otherwise it follows from strength
\* = (consistency + magnitude) / 2, consistency the percentage of
\* consecutive overall-score deltas whose sign matches the trend,
\* magnitude = min(100, 5 x mean absolute delta): strong from 75, moderate
\* from 50, else weak.
C24_TrendStrength ==
  \A i \in Analyzed :
    LET row == trendAnalyses[i]
        deltas == ConsecutiveDeltas(PeriodHistory(row.timePeriod))
    IN row.trendStrength =
         (IF row.overallTrend = "stable" THEN "weak"
          ELSE ClaimedStrength(row.overallTrend, deltas))

\* a declining history whose deltas go both ways and whose magnitude is
\* capped is stored with a moderate strength
C24_Witness ==
  \E i \in Analyzed :
    LET row == trendAnalyses[i]
        deltas == ConsecutiveDeltas(PeriodHistory(row.timePeriod))
    IN /\ row.overallTrend = "declining"
       /\ row.trendStrength = "moderate"
       /\ \E k \in 1..Len(deltas) : deltas[k] > 0
       /\ 5 * TotalMagnitude(deltas) > 100 * Len(deltas)

\* a confidence at a tie was rounded down: six records of one day apart,
\* two without the optional scores, 30d, give 60.5 and the score 60
ConfidenceTieRoundedDown ==
  \E i \in Analyzed :
    LET history == PeriodHistory(trendAnalyses[i].timePeriod)
    IN /\ trendAnalyses[i].timePeriod = "30d"
       /\ Len(history) = 6
       /\ NonNullFields(history) = 22
       /\ ActualSpan(history) = 5
       /\ DaysSinceLatest(history) = 0
       /\ trendAnalyses[i].confidenceScore = 60

\* the requests checkLinks has sent for the anchor idx, as positions of the log
LinkRequests(idx) ==
  {k \in 1..Len(audit.log) :
     /\ audit.log[k].kind = "http"
     /\ audit.log[k].target = "link"
     /\ audit.log[k].i = idx}

\* the probes of the anchor idx that have settled
SettledOf(idx) ==
  {k \in SettledProbes : audit.log[k].i = idx}

\* C25: for every probed link HEAD is sent first; a GET is sent only right
\* after the HEAD failed with status 405 or 501, its body is never read, and
\* the status of the GET, not of the HEAD, is what a brokenLinks entry of the
\* link carries; a HEAD that settled otherwise is never followed by a GET,
\* and a link receives at most two requests.
C25_HeadFirstGetOnlyAfter405Or501 ==
  \A idx \in 1..Len(audit.anchors) :
    LET sent == LinkRequests(idx)
    IN /\ Cardinality(sent) <= 2
       /\ \A k \in sent :
            /\ audit.log[k].method \in {"HEAD", "GET"}
            /\ audit.log[k].method = "HEAD" => \A m \in sent : m >= k
            /\ audit.log[k].method = "GET" =>
                 /\ \E m \in sent : m < k /\ audit.log[m].method = "HEAD"
                 /\ audit.log[k - 1].kind = "headFailed"
                 /\ audit.log[k - 1].i = idx
                 /\ audit.log[k - 1].status \in {405, 501}
       /\ \A k \in SettledOf(idx) :
            /\ audit.log[k].method = "HEAD" =>
                 \A m \in sent : audit.log[m].method = "HEAD"
            /\ audit.log[k].method = "GET" =>
                 /\ audit.log[k].body \in {"destroyed", "unread", "none"}
                 /\ ValidateStatus(audit.log[k].status)
                      => audit.log[k].body = "destroyed"
                 /\ \A b \in 1..Len(audit.brokenLinks) :
                      audit.brokenLinks[b].url = audit.log[k].url
                        => audit.brokenLinks[b].status = audit.log[k].status
                 /\ (audit.log[k].status # Null /\ audit.log[k].status >= 400)
                      => \E b \in 1..Len(audit.brokenLinks) :
                           audit.brokenLinks[b].url = audit.log[k].url
                 /\ (audit.log[k].status = Null
                       \/ ValidateStatus(audit.log[k].status))
                      => \A b \in 1..Len(audit.brokenLinks) :
                           audit.brokenLinks[b].url # audit.log[k].url

\* the HEAD of a link failed with 501, its GET answered 500 and the link was
\* recorded with the status 500; the HEAD of another link failed with 404 and
\* no GET followed
C25_Witness ==
  \E k, m \in SettledProbes :
    /\ audit.log[k].method = "GET"
    /\ audit.log[k].status = 500
    /\ audit.log[k - 2].kind = "headFailed"
    /\ audit.log[k - 2].status = 501
    /\ \E b \in 1..Len(audit.brokenLinks) :
         /\ audit.brokenLinks[b].url = audit.log[k].url
         /\ audit.brokenLinks[b].status = 500
    /\ audit.log[m].method = "HEAD"
    /\ audit.log[m].status = 404
    /\ Cardinality(LinkRequests(audit.log[m].i)) = 1

\* how many times the record h occurs in the array
Occurrences(histories, h) ==
  Cardinality({i \in 1..Len(histories) : histories[i] = h})

\* the read of the job j for its window w missed a record which is still
\* stored and which the job k had read for the same window
ReadOlder(j, k, w) ==
  \E h \in Range(jobs[k].seen[w]) :
    /\ Occurrences(jobs[k].seen[w], h) > Occurrences(jobs[j].seen[w], h)
    /\ Occurrences(HistoryOf(jobs[j].tid), h)
         > Occurrences(jobs[j].seen[w], h)

C26Step ==
  \A j \in 1..Len(jobs) :
    StoresWindow(j) =>
      \A k \in 1..Len(jobs) :
        (/\ k # j
         /\ jobs[k].tid = jobs[j].tid
         /\ jobs[k].outcomes[jobs[j].w] = "stored")
          => ~ReadOlder(j, k, jobs[j].w)

\* C26: a trend computation that read an older history never stores over
\* the result of a computation that read a newer one, so that once all the
\* computations of a tracking have completed the stored TrendAnalysis of
\* each period comes from a history with every record appended before the
\* last trigger.
C26_NoStaleOverwrite == [][C26Step]_vars

\* C27: in every analysis of an analyzed history the trend direction and
\* the significant changes of the overall metric agree: with overallTrend
\* improving the overall metric is not among the regressions, with
\* overallTrend declining it is not among the improvements.
C27_TrendAgreesWithOverallChange ==
  \A i \in Analyzed :
    LET row == trendAnalyses[i]
    IN /\ row.overallTrend = "improving"
            => EntriesOf(row.regressions, "overall") = {}
       /\ row.overallTrend = "declining"
            => EntriesOf(row.improvements, "overall") = {}

\* how often the position occurs in results and errors together
TimesAccounted(pos) ==
  Cardinality({k \in 1..Len(bulk.results) : bulk.results[k].pos = pos})
    + Cardinality({k \in 1..Len(bulk.errors) : bulk.errors[k].pos = pos})

\* C28: every submitted URL of a bulk-analysis request is accounted for
\* exactly once, in results or in errors, so successCount + errorCount =
\* totalUrls; a failing audit aborts neither the batch nor the request; at
\* most 3 audits are in flight, all of the current batch, and a batch starts
\* only when every URL of the batches before it has been accounted for.
C28_EveryUrlAccountedOnce ==
  LET n == Len(bulk.urls)
  IN /\ Cardinality(InFlight) <= 3
     /\ InFlight \subseteq BatchAt(bulk.i, n)
     /\ \A pos \in 1..n :
          /\ pos > bulk.i + 3 => bulk.stage[pos] = "waiting"
          /\ pos <= bulk.i =>
               /\ TimesAccounted(pos) = 1
               /\ bulk.stage[pos] = "success"
                    <=> \E k \in 1..Len(bulk.results) :
                          /\ bulk.results[k].pos = pos
                          /\ bulk.results[k].url = bulk.urls[pos]
          /\ pos > bulk.i => TimesAccounted(pos) = 0
     /\ (bulk.pc = "responded" /\ n > 0) =>
          /\ bulk.response.status = 200
          /\ bulk.response.totalUrls = n
          /\ bulk.response.successCount + bulk.response.errorCount = n
          /\ bulk.response.successCount = Len(bulk.results)
          /\ bulk.response.errorCount = Len(bulk.errors)
          /\ \A pos \in 1..n : TimesAccounted(pos) = 1

\* a request of two batches or more was answered with successes and errors
\* of URLs of one batch
C28_Witness ==
  /\ bulk.pc = "responded"
  /\ Len(bulk.urls) > 3
  /\ bulk.stage[1] = "error"
  /\ bulk.stage[2] = "success"
  /\ bulk.stage[3] = "error"
  /\ bulk.stage[4] = "success"
  /\ bulk.response.successCount > 0
  /\ bulk.response.errorCount > 0

\* the results of generateTrendAnalysis the order of the records could reach
EngineResult(history, p, today, short) ==
  LET row == AnalysisData(1, p, history, today, short)
  IN <<row.overallTrend, row.trendStrength, row.improvements,
       row.regressions, row.confidenceScore>>

\* the records at the odd positions, then those at the even positions
OddsThenEvens(history) ==
  LET n == Len(history)
      odds == (n + 1) \div 2
  IN [i \in 1..n |-> IF i <= odds THEN history[2 * i - 1]
                     ELSE history[2 * (i - odds)]]

\* orders in which storage may return the records of a window: as stored,
\* ascending, descending (left behind by the in-place sort of
\* getPerformanceHistoryByTracking), and neither
StorageOrders(history) ==
  {history, SortAsc(history), SortDesc(history), OddsThenEvens(history)}

DistinctRecordedAt(history) ==
  \A a, b \in 1..Len(history) :
    history[a].recordedAt = history[b].recordedAt => a = b

\* C29: for records with pairwise distinct recordedAt the overallTrend,
\* trendStrength, improvements, regressions and confidenceScore of the
\* analysis just stored are those of the same records in any other order.
C29_OrderOfRecordsIrrelevant ==
  trendAnalyses # <<>> =>
    LET row == trendAnalyses[Len(trendAnalyses)]
        p == row.timePeriod
        history == PeriodHistory(p)
        stored == <<row.overallTrend, row.trendStrength, row.improvements,
                    row.regressions, row.confidenceScore>>
    IN DistinctRecordedAt(history) =>
         /\ \A short \in BOOLEAN :
              LET result == EngineResult(history, p, now, short)
              IN \A order \in StorageOrders(history) \ {history} :
                   EngineResult(order, p, now, short) = result
         /\ \E short \in BOOLEAN :
              EngineResult(SortDesc(history), p, now, short) = stored

\* an improving 30d analysis with a significant change was stored for ten
\* records or more of distinct dates, whose four orders all differ
C29_Witness ==
  /\ trendAnalyses # <<>>
  /\ LET row == trendAnalyses[Len(trendAnalyses)]
         history == PeriodHistory(row.timePeriod)
     IN /\ row.timePeriod = "30d"
        /\ Len(history) >= 10
        /\ DistinctRecordedAt(history)
        /\ row.overallTrend = "improving"
        /\ row.improvements # <<>>
        /\ Cardinality(StorageOrders(history)) >= 3

\* C30: an analyzed history of five or fewer records, which only the 7d
\* window (3 to 5 records) and the 30d window (5 records) can hold, has no
\* improvements and no regressions whatever its scores, and none of its
\* recommendations comes from a major improvement or regression.
C30_NoChangesUpToFiveRecords ==
  \A i \in Analyzed :
    LET row == trendAnalyses[i]
        n == Len(PeriodHistory(row.timePeriod))
    IN n <= 5 =>
         /\ row.improvements = <<>>
         /\ row.regressions = <<>>
         /\ \A k \in 1..Len(row.recommendations) :
              row.recommendations[k].title
                \notin {"Recovery Required", "Scale Success"}
         /\ \/ row.timePeriod = "7d" /\ n \in 3..5
            \/ row.timePeriod = "30d" /\ n = 5

\* a 30d history of five records, the first at 0 and the last at 80, was
\* analyzed as improving and holds no improvement
C30_Witness ==
  \E i \in Analyzed :
    /\ trendAnalyses[i].timePeriod = "30d"
    /\ Len(PeriodHistory("30d")) = 5
    /\ trendAnalyses[i].overallTrend = "improving"
    /\ PeriodHistory("30d")[1].overallScore = 0
    /\ PeriodHistory("30d")[5].overallScore = 80
    /\ trendAnalyses[i].improvements = <<>>

====
